---- MODULE Spec2Model ----
(***************************************************************************)
(* Chord ring of virtual nodes: membership events, the stabilization       *)
(* round, finger maintenance, lookup and the ring invariants, as           *)
(* implemented in Chord/ring.go, Chord/localNode.go and Chord/storage.go.  *)
(*                                                                         *)
(* A vnode handle is its Num (0, 1, 2, ...); Nil is the nil pointer.  The  *)
(* identifier of a handle is IdOf(num).  Slices keep the source's 0-based  *)
(* indices: successors[v] and finger[v] are functions on 0..len-1;         *)
(* ring.vnodes is a sequence (index i of the source is i+1 here).          *)
(***************************************************************************)
EXTENDS Integers, Sequences, FiniteSets, TLC

\* ---------------------------------------------------------------- bounds
\* Width of the identifier space (Config.hashBits, scaled down).
HashBits == 3
\* Largest ring built by Create.
MaxVnodes == 3
\* Largest successor-list length (Config.NumSuccessors).
MaxSuccessors == 2
\* Number of membership events the event engine applies.
MaxEvents == 1
\* Number of those events that may be joins.
MaxJoins == 1
\* Number of events of an event list made of leave and fail events only.
MaxDeparts == 2
\* Number of distinct keys and of distinct values the REPL is given.
MaxKeys == 2
MaxValues == 2
\* Capacity of Ring.delegateCh (32 in the code) and number of callbacks handed to
\* invokeDelegate by the vnodes.
DelegateCap == 2
MaxCallbacks == 3
\* Largest num given to generateEvents.
MaxGenerated == 3

Nil == -1
IdSpace == 0 .. (2^HashBits - 1)
\* Every handle that can exist: the created vnodes and one per join event.
Nums == 0 .. (MaxVnodes + MaxJoins - 1)

\* The keys and values typed at the REPL.
Keys == 0 .. (MaxKeys - 1)
Values == 1 .. MaxValues

\* hash(hostname || idx): a fixed injective table, not monotone in idx, so
\* that sorting by id is not sorting by Num.
HashTable == <<5, 2, 7, 0, 3, 6, 1, 4>>
IdOf(num) == HashTable[(num % 8) + 1]

\* ------------------------------------------------ identifier algebra
\* global.Between: x strictly inside the clockwise arc (id1, id2).
Between(id1, id2, key) ==
    IF id1 < id2 THEN id1 < key /\ key < id2
                 ELSE key > id1 \/ key < id2

\* global.BetweenRightIncl: the arc (id1, id2].
BetweenRightIncl(id1, id2, key) ==
    IF id1 < id2 THEN id1 < key /\ key <= id2
                 ELSE key > id1 \/ key <= id2

\* global.PowerOffset: (id + 2^exp) mod 2^mod.
PowerOffset(id, exp, mod) == (id + 2^exp) % (2^mod)

\* global.Min
Min(a, b) == IF a < b THEN a ELSE b

\* Clockwise distance from id a to id b.
Distance(a, b) == (b - a + 2^HashBits) % (2^HashBits)

VARIABLES
    NumVnodes,      \* Config.NumVnodes
    NumSuccessors,  \* Config.NumSuccessors
    vnodes,         \* Ring.vnodes: sequence of handles
    registered,     \* the local transport's registry
    successors,     \* localVnode.successors
    finger,         \* localVnode.finger
    last_finger,    \* localVnode.last_finger
    predecessor,    \* localVnode.predecessor
    Shutdown,       \* localVnode.Shutdown latch
    pc,             \* per vnode: timer / position inside the round
    failReader,     \* vnodes whose fail channel has a receiver waiting
    shutdown,       \* Ring.shutdown: Nil (nil channel) or number of buffered signals
    stopped,        \* signals Ring.stopVnodes has received; Nil before the call
    signals,        \* per vnode: signals it has written to Ring.shutdown
    nextNum,        \* id counter of the event engine
    events,         \* events the engine still applies
    version,        \* the join variant of the run: "old" or "new"; "" until first read
    panicked,       \* the process has died of a run-time panic
    fresh,          \* no step has been taken since Create returned
    store,          \* per vnode: dataStore.data, key -> value (Nil: absent)
    reply,          \* the last command of the dht REPL and what it printed
    delegateCh,     \* Ring.delegateCh: the buffered wrappers, oldest first
    chClosed,       \* Ring.delegateCh has been closed
    handler,        \* position of the delegateHandler goroutine ("off": none)
    running,        \* callbacks inside safeInvoke
    ran,            \* callbacks that have returned, in the order they returned
    stopper,        \* position of Ring.stopDelegate
    nextCb,         \* number of the next wrapper to be handed to invokeDelegate
    notifying,      \* per vnode: succ and succ_list of a notifySuccessor in progress
    genNum,         \* generateEvents: the argument num
    genEvents       \* generateEvents: the draws made and the slice events built so far

vars == <<NumVnodes, NumSuccessors, vnodes, registered, successors, finger,
          last_finger, predecessor, Shutdown, pc, failReader, shutdown,
          stopped, signals, nextNum, events, version, panicked, fresh,
          store, reply, delegateCh, chClosed, handler, running, ran, stopper, nextCb,
          notifying, genNum, genEvents>>

\* The ring fields of the ring and its vnodes.
ringVars == <<NumVnodes, NumSuccessors, vnodes, registered, successors, finger,
              last_finger, predecessor, Shutdown, pc, failReader, shutdown, stopped,
              signals, nextNum, events, version, panicked>>

\* The data stores and the REPL output.
dhtVars == <<store, reply>>
\* The delegate machinery of the ring.
delegateVars == <<delegateCh, chClosed, handler, running, ran, stopper, nextCb>>
\* The locals of a notifySuccessor between its Notify call and its copy loop.
raceVars == <<notifying>>
\* The argument and the locals of Ring.generateEvents.
genVars == <<genNum, genEvents>>
\* No notifySuccessor is between its call and its loop.
NoCall == [succ |-> Nil, list |-> <<>>]

SuccIdx == 0 .. (NumSuccessors - 1)
FingerIdx == 0 .. (HashBits - 1)

\* ------------------------------------------------------------ helpers
Range(s) == {s[i] : i \in DOMAIN s}

RECURSIVE Insert(_, _)
\* Insert handle v into the id-sorted sequence s.
Insert(s, v) ==
    IF s = <<>> THEN <<v>>
    ELSE IF IdOf(v) < IdOf(Head(s)) THEN <<v>> \o s
    ELSE <<Head(s)>> \o Insert(Tail(s), v)

\* No sort: the sequence as it is.
SortOff(s) == s

RECURSIVE SortById(_)
\* sort.Sort(r): ascending by id (Ring.Less).
SortById(s) == IF s = <<>> THEN <<>> ELSE Insert(SortById(Tail(s)), Head(s))

\* append(r.vnodes[:val], r.vnodes[val+1:]...)
RemoveAt(s, val) == [i \in 1 .. (Len(s) - 1) |-> IF i <= val THEN s[i] ELSE s[i + 1]]

\* localVnode.knownSuccessors: index of the last non-nil slot, plus one.
knownSuccessors(succs) ==
    LET nz == {i \in DOMAIN succs : succs[i] # Nil}
    IN  IF nz = {} THEN 0 ELSE (CHOOSE i \in nz : \A j \in nz : j <= i) + 1

\* No shift: the list as it is.
ShiftOff(succs) == succs

\* copy(s[0:], s[1:]): every slot takes its right neighbour, the last keeps its value.
ShiftLeft(succs) ==
    [i \in DOMAIN succs |-> IF (i + 1) \in DOMAIN succs THEN succs[i + 1] ELSE succs[i]]

\* successors[:n] as a sequence.
Prefix(succs, n) == [i \in 1 .. n |-> succs[i - 1]]

\* ------------------------------------------------------------ transport
\* LocalTransport.Ping over a blackhole remote: true for a registered handle,
\* (false, nil) otherwise.
Ping(v) == v \in registered

Ok(nodes, jumps) == [kind |-> "ok", nodes |-> nodes, jumps |-> jumps]
Err == [kind |-> "err", nodes |-> <<>>, jumps |-> 0]
Panic == [kind |-> "panic", nodes |-> <<>>, jumps |-> 0]

\* ------------------------------------------------------------ lookup
\* closestPreceedingVnodeIterator: the non-nil finger and successor entries
\* whose id lies strictly between the vnode and the key.
Candidates(v, key) ==
    {c \in (Range(finger[v]) \cup Range(successors[v])) \ {Nil} :
        Between(IdOf(v), key, IdOf(c))}

\* closestPreceedingVnodeIterator.Next: the candidate nearest to the key.
Closest(v, cs) ==
    CHOOSE c \in cs : \A d \in cs :
        Distance(IdOf(v), IdOf(d)) <= Distance(IdOf(v), IdOf(c))

\* The last part of FindSuccessors reading every later slot, known or not.
FallbackSuccessorsAll(v, n, key) ==
    LET succs == successors[v]
        stop  == {i \in 1 .. (NumSuccessors - 1) :
                    \/ succs[i] = Nil
                    \/ BetweenRightIncl(IdOf(v), IdOf(succs[i]), key)}
    IN  IF stop = {} THEN Err
        ELSE LET i == CHOOSE j \in stop : \A k \in stop : j <= k
                 len == Min(n, NumSuccessors - i)
             IN  IF succs[i] = Nil THEN Panic
                 ELSE Ok([j \in 1 .. len |-> succs[i + j - 1]], 1)

\* FindSuccessors, last part: the key between the vnode and a later successor.
\* Slot i is read for i = 1 .. known-n in turn; a nil slot is dereferenced.
FallbackSuccessors(v, n, key) ==
    LET succs == successors[v]
        known == knownSuccessors(succs)
        stop  == {i \in 1 .. (known - n) :
                    \/ succs[i] = Nil
                    \/ BetweenRightIncl(IdOf(v), IdOf(succs[i]), key)}
    IN  IF stop = {} THEN Err
        ELSE LET i == CHOOSE j \in stop : \A k \in stop : j <= k
                 len == Min(n, NumSuccessors - i)
             IN  IF succs[i] = Nil THEN Panic
                 ELSE Ok([j \in 1 .. len |-> succs[i + j - 1]], 1)

RECURSIVE FindSuccessors(_, _, _), TryPreceding(_, _, _, _)
\* localVnode.FindSuccessors(n, key) run on vnode v.
FindSuccessors(v, n, key) ==
    IF key = IdOf(v) \/ successors[v][0] = Nil
    THEN Ok(Prefix(successors[v], n), 1)
    ELSE IF BetweenRightIncl(IdOf(v), IdOf(successors[v][0]), key)
    THEN Ok(Prefix(successors[v], n), 1)
    ELSE TryPreceding(v, Candidates(v, key), n, key)

\* One turn of the loop over cp.Next(), the call on candidate c having given r:
\* a success answers, an error moves on to the next candidate.
AfterCall(v, cs, c, n, key, r) ==
    IF r.kind = "ok" THEN Ok(r.nodes, 1 + r.jumps)
    ELSE IF r.kind = "panic" THEN Panic
    ELSE TryPreceding(v, cs \ {c}, n, key)

\* The loop over cp.Next(): the first candidate whose call succeeds answers.
\* The candidate and the outcome of the one call made on it are each bound once.
TryPreceding(v, cs, n, key) ==
    IF cs = {} THEN FallbackSuccessors(v, n, key)
    ELSE CHOOSE a \in UNION {{AfterCall(v, cs, c, n, key, r) :
                                r \in {IF c \in registered THEN FindSuccessors(c, n, key)
                                       ELSE Err}} :
                             c \in {Closest(v, cs)}} : TRUE

\* LocalTransport.FindSuccessors: dispatch to the registered handler.
TransFindSuccessors(v, n, key) ==
    IF v \in registered THEN FindSuccessors(v, n, key) ELSE Err

\* nearestVnode with "<=" for "<": a vnode whose id equals the key is taken as the
\* starting point.
nearestVnodeLeq(key) ==
    LET below == {i \in 1 .. Len(vnodes) : IdOf(vnodes[i]) <= key}
    IN  IF below = {} THEN vnodes[Len(vnodes)]
        ELSE vnodes[CHOOSE i \in below : \A j \in below : j <= i]

\* Ring.nearestVnode: the last vnode with id below the key, else the last vnode.
nearestVnode(key) ==
    LET below == {i \in 1 .. Len(vnodes) : IdOf(vnodes[i]) < key}
    IN  IF below = {} THEN vnodes[Len(vnodes)]
        ELSE vnodes[CHOOSE i \in below : \A j \in below : j <= i]

RECURSIVE TrimNil(_)
\* for successors[len-1] == nil { successors = successors[:len-1] }:
\* indexing the emptied slice at -1 panics.
TrimNil(nodes) ==
    IF nodes = <<>> THEN Panic
    ELSE IF nodes[Len(nodes)] = Nil THEN TrimNil(SubSeq(nodes, 1, Len(nodes) - 1))
    ELSE Ok(nodes, 0)

\* Ring.Lookup(n, key) with key_hash the hash of the key.
Lookup(n, key_hash) ==
    IF n > NumSuccessors THEN Err
    ELSE IF vnodes = <<>> THEN Panic
    ELSE LET r == FindSuccessors(nearestVnode(key_hash), n, key_hash)
         IN  IF r.kind # "ok" THEN r ELSE TrimNil(r.nodes)

\* ------------------------------------------------ stabilization sub-steps
\* Outcome of checkNewSuccessor: the successor list it leaves, whether it
\* returned an error, whether it wrote to the fail channel, whether it panicked.
Cns(succs, err, sig, pan) == [succs |-> succs, err |-> err, sig |-> sig, panic |-> pan]

\* copy(vn.successors[1:], successors[:NumSuccessors-1]) after successors[0] = maybe_suc
AdoptSuccessor(succs, maybe_suc, list) ==
    [i \in DOMAIN succs |-> IF i = 0 THEN maybe_suc ELSE list[i]]

RECURSIVE checkNewSuccessor(_, _), walkSuccessors(_, _, _, _)
\* localVnode.checkNewSuccessor from the label CHECK_NEW_SUC, on the list succs.
checkNewSuccessor(v, succs) ==
    LET succ == succs[0] IN
    IF succ = Nil THEN Cns(succs, TRUE, predecessor[v] = Nil, FALSE)
    ELSE IF succ \notin registered
    THEN \* GetPredecessor failed
         IF knownSuccessors(succs) > 1
         THEN walkSuccessors(v, succs, knownSuccessors(succs), 0)
         ELSE Cns(succs, TRUE, FALSE, FALSE)
    ELSE LET maybe_suc == predecessor[succ] IN
         IF maybe_suc # Nil /\ Between(IdOf(v), IdOf(succ), IdOf(maybe_suc))
         THEN LET r == TransFindSuccessors(maybe_suc, NumSuccessors - 1, IdOf(maybe_suc))
                  first == [succs EXCEPT ![0] = maybe_suc]
              IN  IF r.kind = "panic" THEN Cns(first, TRUE, FALSE, TRUE)
                  ELSE IF r.kind = "err" THEN Cns(first, TRUE, FALSE, FALSE)
                  ELSE Cns(AdoptSuccessor(succs, maybe_suc, r.nodes),
                           FALSE, FALSE, FALSE)
         ELSE Cns(succs, FALSE, FALSE, FALSE)

\* The loop "for i := 0; i < known; i++" that pings successors[0].
walkSuccessors(v, succs, known, i) ==
    IF i >= known THEN Cns(succs, TRUE, FALSE, FALSE)
    ELSE IF succs[0] = Nil THEN Cns(succs, TRUE, FALSE, TRUE)
    ELSE IF ~Ping(succs[0])
    THEN IF i + 1 = known THEN Cns(succs, TRUE, FALSE, FALSE)
         ELSE walkSuccessors(v, [ShiftLeft(succs) EXCEPT ![known - 1 - i] = Nil],
                             known, i + 1)
    ELSE checkNewSuccessor(v, succs)

\* A handler that takes every caller as predecessor.
NotifyAlways(s, maybe_pred) == maybe_pred

\* localVnode.Notify run on vnode s for the caller maybe_pred: the new predecessor.
Notify(s, maybe_pred) ==
    IF predecessor[s] = Nil \/ Between(IdOf(predecessor[s]), IdOf(s), IdOf(maybe_pred))
    THEN maybe_pred
    ELSE predecessor[s]

RECURSIVE updateSuccessorsOff(_, _, _, _)
\* notifySuccessor's loop writing slot idx for slot idx+1.
updateSuccessorsOff(v, succs, succ_list, idx) ==
    IF idx >= NumSuccessors - 1 THEN succs
    ELSE IF succ_list[idx] = Nil \/ IdOf(succ_list[idx]) = IdOf(v) THEN succs
    ELSE updateSuccessorsOff(v, [succs EXCEPT ![idx] = succ_list[idx]], succ_list, idx + 1)

RECURSIVE updateSuccessorsAll(_, _, _, _)
\* The loop without the test for the vnode itself.
updateSuccessorsAll(v, succs, succ_list, idx) ==
    IF idx >= NumSuccessors - 1 THEN succs
    ELSE IF succ_list[idx] = Nil THEN succs
    ELSE updateSuccessorsAll(v, [succs EXCEPT ![idx + 1] = succ_list[idx]], succ_list, idx + 1)

RECURSIVE updateSuccessors(_, _, _, _)
\* The loop of notifySuccessor over succ_list (already cut to NumSuccessors-1),
\* from index idx on.
updateSuccessors(v, succs, succ_list, idx) ==
    IF idx >= NumSuccessors - 1 THEN succs
    ELSE IF succ_list[idx] = Nil \/ IdOf(succ_list[idx]) = IdOf(v) THEN succs
    ELSE updateSuccessors(v, [succs EXCEPT ![idx + 1] = succ_list[idx]], succ_list, idx + 1)

\* No skipping: the finger index stays where it is.
skipFingersOff(v, node, fing, last) == <<fing, last>>

\* Outcome of fixFingerTable: the finger table and last_finger it leaves.
RECURSIVE skipFingers(_, _, _, _)
\* "Try to skip as many finger entries as possible": returns <<finger, last_finger>>.
skipFingers(v, node, fing, last) ==
    LET next == last + 1 IN
    IF next >= HashBits THEN <<fing, last>>
    ELSE IF BetweenRightIncl(IdOf(v), IdOf(node), PowerOffset(IdOf(v), next, HashBits))
    THEN skipFingers(v, node, [fing EXCEPT ![next] = node], next)
    ELSE <<fing, last>>

\* The outcome of fixFingerTable on vnode v when its FindSuccessors call gave r.
fixFingerWith(v, r) ==
    IF r.kind = "panic" THEN [finger |-> finger[v], last |-> last_finger[v], panic |-> TRUE]
    ELSE IF r.kind = "err" \/ r.nodes = <<>> \/ r.nodes[1] = Nil
    THEN [finger |-> finger[v], last |-> last_finger[v], panic |-> FALSE]
    ELSE LET sk == skipFingers(v, r.nodes[1],
                               [finger[v] EXCEPT ![last_finger[v]] = r.nodes[1]],
                               last_finger[v])
         IN  [finger |-> sk[1],
              last   |-> IF sk[2] + 1 = HashBits THEN 0 ELSE sk[2] + 1,
              panic  |-> FALSE]

\* localVnode.fixFingerTable run on vnode v.
fixFingerTable(v) ==
    CHOOSE out \in {fixFingerWith(v, r) :
                        r \in {FindSuccessors(v, 1,
                                  PowerOffset(IdOf(v), last_finger[v], HashBits))}} : TRUE

\* ------------------------------------------------------------ Create
\* setLocalSuccessors starting the list at the vnode itself (idx+i for idx+i+1).
setLocalSuccessorsOff(vs, idx, R) ==
    [i \in 0 .. (R - 1) |->
        IF i < Min(R, Len(vs) - 1) THEN vs[((idx + i) % Len(vs)) + 1] ELSE Nil]

\* Ring.setLocalSuccessors on the sorted vnode list vs, for the vnode at index idx
\* (0-based): the next min(R, N-1) vnodes in sorted order.
setLocalSuccessors(vs, idx, R) ==
    [i \in 0 .. (R - 1) |->
        IF i < Min(R, Len(vs) - 1) THEN vs[((idx + i + 1) % Len(vs)) + 1] ELSE Nil]

\* Index (0-based) of handle v in the sequence vs.
IndexOf(vs, v) == (CHOOSE i \in 1 .. Len(vs) : vs[i] = v) - 1

\* Create(conf, trans): Ring.init (vnodes 0..N-1 made, registered, sorted),
\* setLocalSuccessors, schedule.  ev and vers are the event engine's inputs.
InitRing(ns, rs, ev, vers) ==
    /\ NumVnodes \in ns
    /\ NumSuccessors \in rs
    /\ vnodes = SortById([i \in 1 .. NumVnodes |-> i - 1])
    /\ registered = 0 .. (NumVnodes - 1)
    /\ successors = [v \in Nums |->
            IF v < NumVnodes
            THEN setLocalSuccessors(vnodes, IndexOf(vnodes, v), NumSuccessors)
            ELSE [i \in 0 .. (NumSuccessors - 1) |-> Nil]]
    /\ finger = [v \in Nums |-> [k \in FingerIdx |-> Nil]]
    /\ last_finger = [v \in Nums |-> 0]
    /\ predecessor = [v \in Nums |-> Nil]
    /\ Shutdown = [v \in Nums |-> FALSE]
    /\ pc = [v \in Nums |-> IF v < NumVnodes THEN "armed" ELSE "none"]
    /\ failReader = {}
    /\ shutdown = Nil
    /\ stopped = Nil
    /\ signals = [v \in Nums |-> 0]
    /\ nextNum = NumVnodes
    /\ events = ev
    /\ version \in vers
    /\ panicked = FALSE
    /\ fresh = TRUE
    /\ store = [v \in Nums |-> [k \in Keys |-> Nil]]
    /\ reply = <<>>
    /\ notifying = [v \in Nums |-> NoCall]

\* Ring.init with config.Delegate nil: delegateCh is made, no handler is started.
DelegateOff ==
    /\ delegateCh = <<>>
    /\ chClosed = FALSE
    /\ handler = "off"
    /\ running = {}
    /\ ran = <<>>
    /\ stopper = "idle"
    /\ nextCb = 1

\* generateEvents has not been called.
GenOff == genNum = 0 /\ genEvents = <<>>

InitWith(ns, rs, ev, vers) == InitRing(ns, rs, ev, vers) /\ DelegateOff /\ GenOff

Init == InitWith(1 .. MaxVnodes, 1 .. MaxSuccessors, MaxEvents, {""})

\* stabilize on a periodic timer: the firing leaves the timer armed and no round of
\* the vnode is started from it.
TimerFireKeep(v) ==
    /\ ~panicked
    /\ pc[v] = "armed"
    /\ fresh' = FALSE
    /\ UNCHANGED <<dhtVars, delegateVars, raceVars, genVars>>
    /\ UNCHANGED <<NumVnodes, NumSuccessors, vnodes, registered, successors, finger,
                   last_finger, predecessor, Shutdown, pc, failReader, shutdown,
                   stopped, signals, nextNum, events, version, panicked>>

\* stabilize without the test of the vnode's latch.
TimerFireUnlatched(v) ==
    /\ ~panicked
    /\ pc[v] = "armed"
    /\ IF shutdown # Nil
       THEN \* vn.ring.shutdown <- true; return
            /\ IF shutdown < NumVnodes
               THEN /\ shutdown' = shutdown + 1
                    /\ signals' = [signals EXCEPT ![v] = @ + 1]
                    /\ pc' = [pc EXCEPT ![v] = "none"]
               ELSE /\ pc' = [pc EXCEPT ![v] = "shutdownSend"]
                    /\ UNCHANGED <<shutdown, signals>>
            /\ UNCHANGED <<successors, failReader, panicked>>
       ELSE \E r \in {checkNewSuccessor(v, successors[v])} :
            /\ UNCHANGED <<shutdown, signals>>
            /\ IF r.panic
               THEN /\ panicked' = TRUE
                    /\ UNCHANGED <<successors, pc, failReader>>
               ELSE /\ successors' = [successors EXCEPT ![v] = r.succs]
                    /\ panicked' = FALSE
                    /\ IF r.sig /\ v \notin failReader
                       THEN \* fail <- true with no receiver: blocked for good
                            /\ pc' = [pc EXCEPT ![v] = "failSend"]
                            /\ UNCHANGED failReader
                       ELSE /\ pc' = [pc EXCEPT ![v] = "notifySuccessor"]
                            /\ failReader' = IF r.sig THEN failReader \ {v}
                                             ELSE failReader
    /\ fresh' = FALSE
    /\ UNCHANGED <<dhtVars, delegateVars, raceVars, genVars>>
    /\ UNCHANGED <<NumVnodes, NumSuccessors, vnodes, registered, finger, last_finger,
                   predecessor, Shutdown, stopped, nextNum, events, version>>

\* ------------------------------------------------ the stabilization round
\* The timer fires: localVnode.stabilize up to and including sub-step 1,
\* vn.checkNewSuccessor(fail).
TimerFire(v) ==
    /\ ~panicked
    /\ pc[v] = "armed"
    /\ IF shutdown # Nil
       THEN \* vn.ring.shutdown <- true; return
            /\ IF shutdown < NumVnodes
               THEN /\ shutdown' = shutdown + 1
                    /\ signals' = [signals EXCEPT ![v] = @ + 1]
                    /\ pc' = [pc EXCEPT ![v] = "none"]
               ELSE /\ pc' = [pc EXCEPT ![v] = "shutdownSend"]
                    /\ UNCHANGED <<shutdown, signals>>
            /\ UNCHANGED <<successors, failReader, panicked>>
       ELSE IF Shutdown[v]
       THEN /\ pc' = [pc EXCEPT ![v] = "none"]
            /\ UNCHANGED <<shutdown, signals, successors, failReader, panicked>>
       ELSE \E r \in {checkNewSuccessor(v, successors[v])} :
            /\ UNCHANGED <<shutdown, signals>>
            /\ IF r.panic
               THEN /\ panicked' = TRUE
                    /\ UNCHANGED <<successors, pc, failReader>>
               ELSE /\ successors' = [successors EXCEPT ![v] = r.succs]
                    /\ panicked' = FALSE
                    /\ IF r.sig /\ v \notin failReader
                       THEN \* fail <- true with no receiver: blocked for good
                            /\ pc' = [pc EXCEPT ![v] = "failSend"]
                            /\ UNCHANGED failReader
                       ELSE /\ pc' = [pc EXCEPT ![v] = "notifySuccessor"]
                            /\ failReader' = IF r.sig THEN failReader \ {v}
                                             ELSE failReader
    /\ fresh' = FALSE
    /\ UNCHANGED <<dhtVars, delegateVars, raceVars, genVars>>
    /\ UNCHANGED <<NumVnodes, NumSuccessors, vnodes, registered, finger, last_finger,
                   predecessor, Shutdown, stopped, nextNum, events, version>>

\* A vnode blocked on the full ring.shutdown channel gets to write.
SendShutdown(v) ==
    /\ ~panicked
    /\ pc[v] = "shutdownSend"
    /\ shutdown < NumVnodes
    /\ shutdown' = shutdown + 1
    /\ signals' = [signals EXCEPT ![v] = @ + 1]
    /\ pc' = [pc EXCEPT ![v] = "none"]
    /\ fresh' = FALSE
    /\ UNCHANGED <<dhtVars, delegateVars, raceVars, genVars>>
    /\ UNCHANGED <<NumVnodes, NumSuccessors, vnodes, registered, successors, finger,
                   last_finger, predecessor, Shutdown, failReader, stopped, nextNum,
                   events, version, panicked>>

\* notifySuccessor whose Notify reaches the handler of a deregistered successor.
NotifySuccessorDeliver(v) ==
    /\ ~panicked
    /\ pc[v] = "notifySuccessor"
    /\ LET succ == successors[v][0] IN
       IF succ = Nil
       THEN UNCHANGED <<successors, predecessor>>
       ELSE /\ predecessor' = [predecessor EXCEPT ![succ] = Notify(succ, v)]
            /\ successors' = [successors EXCEPT
                    ![v] = updateSuccessors(v, @, successors[succ], 0)]
    /\ pc' = [pc EXCEPT ![v] = "fixFingerTable"]
    /\ fresh' = FALSE
    /\ UNCHANGED <<dhtVars, delegateVars, raceVars, genVars>>
    /\ UNCHANGED <<NumVnodes, NumSuccessors, vnodes, registered, finger, last_finger,
                   Shutdown, failReader, shutdown, stopped, signals, nextNum, events,
                   version, panicked>>

\* notifySuccessor whose error ends the round: the timer is re-armed at once.
NotifySuccessorAbort(v) ==
    /\ ~panicked
    /\ pc[v] = "notifySuccessor"
    /\ LET succ == successors[v][0] IN
       IF succ = Nil \/ succ \notin registered
       THEN /\ pc' = [pc EXCEPT ![v] = "armed"]
            /\ UNCHANGED <<successors, predecessor>>
       ELSE /\ predecessor' = [predecessor EXCEPT ![succ] = Notify(succ, v)]
            /\ successors' = [successors EXCEPT
                    ![v] = updateSuccessors(v, @, successors[succ], 0)]
            /\ pc' = [pc EXCEPT ![v] = "fixFingerTable"]
    /\ fresh' = FALSE
    /\ UNCHANGED <<dhtVars, delegateVars, raceVars, genVars>>
    /\ UNCHANGED <<NumVnodes, NumSuccessors, vnodes, registered, finger, last_finger,
                   Shutdown, failReader, shutdown, stopped, signals, nextNum, events,
                   version, panicked>>

\* Sub-step 2: vn.notifySuccessor(), with the Notify handler of the successor.
NotifySuccessorStep(v) ==
    /\ ~panicked
    /\ pc[v] = "notifySuccessor"
    /\ LET succ == successors[v][0] IN
       IF succ = Nil \/ succ \notin registered
       THEN UNCHANGED <<successors, predecessor>>
       ELSE /\ predecessor' = [predecessor EXCEPT ![succ] = Notify(succ, v)]
            /\ successors' = [successors EXCEPT
                    ![v] = updateSuccessors(v, @, successors[succ], 0)]
    /\ pc' = [pc EXCEPT ![v] = "fixFingerTable"]
    /\ fresh' = FALSE
    /\ UNCHANGED <<dhtVars, delegateVars, raceVars, genVars>>
    /\ UNCHANGED <<NumVnodes, NumSuccessors, vnodes, registered, finger, last_finger,
                   Shutdown, failReader, shutdown, stopped, signals, nextNum, events,
                   version, panicked>>

\* Sub-step 3: vn.fixFingerTable().
FixFingerTableStep(v) ==
    /\ ~panicked
    /\ pc[v] = "fixFingerTable"
    /\ \E r \in {fixFingerTable(v)} :
       IF r.panic
       THEN /\ panicked' = TRUE
            /\ UNCHANGED <<finger, last_finger, pc>>
       ELSE /\ finger' = [finger EXCEPT ![v] = r.finger]
            /\ last_finger' = [last_finger EXCEPT ![v] = r.last]
            /\ pc' = [pc EXCEPT ![v] = "checkPredecessor"]
            /\ panicked' = FALSE
    /\ fresh' = FALSE
    /\ UNCHANGED <<dhtVars, delegateVars, raceVars, genVars>>
    /\ UNCHANGED <<NumVnodes, NumSuccessors, vnodes, registered, successors, predecessor,
                   Shutdown, failReader, shutdown, stopped, signals, nextNum, events,
                   version>>

\* Sub-step 4 without the eviction of a dead predecessor.
CheckPredecessorKeep(v) ==
    /\ ~panicked
    /\ pc[v] = "checkPredecessor"
    /\ pc' = [pc EXCEPT ![v] = "armed"]
    /\ fresh' = FALSE
    /\ UNCHANGED <<dhtVars, delegateVars, raceVars, genVars>>
    /\ UNCHANGED <<NumVnodes, NumSuccessors, vnodes, registered, successors, finger,
                   last_finger, predecessor, Shutdown, failReader, shutdown, stopped,
                   signals, nextNum, events, version, panicked>>

\* Sub-step 4: vn.checkPredecessor(), then the deferred vn.schedule(fail).
CheckPredecessorStep(v) ==
    /\ ~panicked
    /\ pc[v] = "checkPredecessor"
    /\ predecessor' = [predecessor EXCEPT
            ![v] = IF @ # Nil /\ ~Ping(@) THEN Nil ELSE @]
    /\ pc' = [pc EXCEPT ![v] = "armed"]
    /\ fresh' = FALSE
    /\ UNCHANGED <<dhtVars, delegateVars, raceVars, genVars>>
    /\ UNCHANGED <<NumVnodes, NumSuccessors, vnodes, registered, successors, finger,
                   last_finger, Shutdown, failReader, shutdown, stopped, signals,
                   nextNum, events, version, panicked>>

Stabilize(v) ==
    \/ TimerFire(v)
    \/ NotifySuccessorStep(v)
    \/ FixFingerTableStep(v)
    \/ CheckPredecessorStep(v)

\* SkipSuccessor clearing slot 0 where the code shifts the list left.
SkipSuccessorHole(succs, s) ==
    IF IdOf(succs[0]) = IdOf(s) THEN [succs EXCEPT ![0] = Nil] ELSE succs

\* SkipSuccessor that shifts the list and leaves the last known slot as it is.
SkipSuccessorKeep(succs, s) ==
    IF IdOf(succs[0]) = IdOf(s) THEN ShiftLeft(succs) ELSE succs

\* ------------------------------------------------------- leave and fail
\* localVnode.SkipSuccessor run on a vnode with successor list succs for the
\* leaving vnode s: the list it leaves.
SkipSuccessor(succs, s) ==
    IF IdOf(succs[0]) = IdOf(s)
    THEN [ShiftLeft(succs) EXCEPT ![knownSuccessors(succs) - 1] = Nil]
    ELSE succs

\* localVnode.ClearPredecessor run on a vnode holding predecessor pred, for the
\* leaving vnode p.
ClearPredecessor(pred, p) ==
    IF pred # Nil /\ IdOf(pred) = IdOf(p) THEN Nil ELSE pred

\* localVnode.leave() of vnode v in the state (S, P, Reg) of successor lists,
\* predecessors and registry, with the handlers it reaches through the transport.
\* leavePanics: SkipSuccessor dereferences a nil successors[0].
leavePanics(v, S, P, Reg) ==
    P[v] # Nil /\ P[v] \in Reg /\ S[P[v]][0] = Nil

\* The successor lists after trans.SkipSuccessor(vn.predecessor, &vn.Vnode).
leaveSuccessors(v, S, P, Reg) ==
    IF P[v] # Nil /\ P[v] \in Reg
    THEN [S EXCEPT ![P[v]] = SkipSuccessor(@, v)]
    ELSE S

\* The predecessors after trans.ClearPredecessor(vn.successors[0], &vn.Vnode).
leavePredecessor(v, S, P, Reg) ==
    LET s == leaveSuccessors(v, S, P, Reg)[v][0] IN
    IF s # Nil /\ s \in Reg
    THEN [P EXCEPT ![s] = ClearPredecessor(@, v)]
    ELSE P

\* The call trans.SkipSuccessor(vn.predecessor, &vn.Vnode) of leave() is made and
\* fails: the predecessor is not registered.
leaveSkipFailed(v, S, P, Reg) == P[v] # Nil /\ P[v] \notin Reg

\* The call trans.ClearPredecessor(vn.successors[0], &vn.Vnode) of leave() is made
\* and fails.
leaveClearFailed(v, S, P, Reg) ==
    LET s == leaveSuccessors(v, S, P, Reg)[v][0] IN s # Nil /\ s \notin Reg

\* leave() returns a non-nil error: err holds the result of the last call made.
leaveError(v, S, P, Reg) ==
    IF leaveSuccessors(v, S, P, Reg)[v][0] # Nil
    THEN leaveClearFailed(v, S, P, Reg)
    ELSE leaveSkipFailed(v, S, P, Reg)

\* ------------------------------------------------------- the event engine
\* Ring.checkCorrectness, event "leave" on r.vnodes[val], val = rand.Intn(len(r.vnodes)).
EvLeave(val) ==
    /\ ~panicked
    /\ events > 0
    /\ IF vnodes = <<>>
       THEN \* rand.Intn(0) panics
            /\ val = 0
            /\ panicked' = TRUE
            /\ UNCHANGED <<successors, predecessor, Shutdown, registered, vnodes>>
       ELSE /\ val \in 0 .. (Len(vnodes) - 1)
            /\ LET v == vnodes[val + 1] IN
               IF leavePanics(v, successors, predecessor, registered)
               THEN /\ panicked' = TRUE
                    /\ UNCHANGED <<successors, predecessor, Shutdown, registered, vnodes>>
               ELSE /\ successors' = leaveSuccessors(v, successors, predecessor, registered)
                    /\ predecessor' = leavePredecessor(v, successors, predecessor, registered)
                    /\ Shutdown' = [Shutdown EXCEPT ![v] = TRUE]
                    /\ registered' = registered \ {v}
                    /\ vnodes' = RemoveAt(vnodes, val)
                    /\ panicked' = FALSE
    /\ events' = events - 1
    /\ fresh' = FALSE
    /\ UNCHANGED <<dhtVars, delegateVars, raceVars, genVars>>
    /\ UNCHANGED <<NumVnodes, NumSuccessors, finger, last_finger, pc, failReader,
                   shutdown, stopped, signals, nextNum, version>>

\* A fail event that notifies the neighbours as leave() does.
EvFailNotify(val) == EvLeave(val)

\* Ring.checkCorrectness, event "fail" on r.vnodes[val]: localVnode.fail() sets the
\* latch and deregisters, and the engine drops the vnode from r.vnodes.
EvFail(val) ==
    /\ ~panicked
    /\ events > 0
    /\ IF vnodes = <<>>
       THEN \* rand.Intn(0) panics
            /\ val = 0
            /\ panicked' = TRUE
            /\ UNCHANGED <<Shutdown, registered, vnodes>>
       ELSE /\ val \in 0 .. (Len(vnodes) - 1)
            /\ LET v == vnodes[val + 1] IN
               /\ Shutdown' = [Shutdown EXCEPT ![v] = TRUE]
               /\ registered' = registered \ {v}
               /\ vnodes' = RemoveAt(vnodes, val)
               /\ panicked' = FALSE
    /\ events' = events - 1
    /\ fresh' = FALSE
    /\ UNCHANGED <<dhtVars, delegateVars, raceVars, genVars>>
    /\ UNCHANGED <<NumVnodes, NumSuccessors, successors, predecessor, finger, last_finger,
                   pc, failReader, shutdown, stopped, signals, nextNum, version>>

\* The old join asking the seed for a full successor list, as joinNew does.
joinLookupFull(vers, seed, vn) == FindSuccessors(seed, NumSuccessors, IdOf(vn))

\* localVnode.join / joinNew of the new vnode through the seed: the call to
\* FindSuccessors on the seed.
joinLookup(vers, seed, vn) ==
    IF vers = "new"
    THEN FindSuccessors(seed, NumSuccessors, IdOf(vn))
    ELSE FindSuccessors(seed, 1, IdOf(vn))

\* joinNew keeping only the first vnode found, as the old join does.
joinSuccessorsFirst(nodes) ==
    [i \in 0 .. (NumSuccessors - 1) |-> IF i = 0 THEN nodes[1] ELSE Nil]

\* The successor list join / joinNew leaves in the new vnode, from the nodes found.
joinSuccessors(nodes) ==
    [i \in 0 .. (NumSuccessors - 1) |-> IF i + 1 <= Len(nodes) THEN nodes[i + 1] ELSE Nil]

\* Ring.checkCorrectness, event "join": a new vnode joins through r.vnodes[2].
EvJoin(vers) ==
    /\ ~panicked
    /\ events > 0
    /\ nextNum < NumVnodes + MaxJoins
    /\ version \in {"", vers}
    /\ version' = vers
    /\ LET vn == nextNum IN
       IF Len(vnodes) < 3
       THEN \* rand.Intn(0) or r.vnodes[2]: index out of range
            /\ panicked' = TRUE
            /\ UNCHANGED <<vnodes, registered, successors, pc, failReader>>
       ELSE LET r == joinLookup(vers, vnodes[3], vn) IN
            IF r.kind = "panic" \/ (r.kind = "ok" /\ vers = "new" /\ r.nodes[1] = Nil)
            THEN \* joinNew reads successors[0].Num of a nil handle
                 /\ panicked' = TRUE
                 /\ UNCHANGED <<vnodes, registered, successors, pc, failReader>>
            ELSE IF r.kind = "err" \/ r.nodes[1] = Nil
            THEN \* "could not join the ring": the vnode stays registered only
                 /\ registered' = registered \cup {vn}
                 /\ panicked' = FALSE
                 /\ UNCHANGED <<vnodes, successors, pc, failReader>>
            ELSE /\ registered' = registered \cup {vn}
                 /\ successors' = [successors EXCEPT ![vn] = joinSuccessors(r.nodes)]
                 /\ vnodes' = SortById(Append(vnodes, vn))
                 /\ pc' = [pc EXCEPT ![vn] = "armed"]
                 /\ failReader' = failReader \cup {vn}
                 /\ panicked' = FALSE
    /\ nextNum' = nextNum + 1
    /\ events' = events - 1
    /\ fresh' = FALSE
    /\ UNCHANGED <<dhtVars, delegateVars, raceVars, genVars>>
    /\ UNCHANGED <<NumVnodes, NumSuccessors, finger, last_finger, predecessor, Shutdown,
                   shutdown, stopped, signals>>

\* ------------------------------------------------ correctness invariants
\* succMap lookup and one step of the successor[0] walk: nil when the handle is
\* not a member of ring.vnodes.
walkNext(node) ==
    IF node \notin Range(vnodes) THEN Nil ELSE successors[node][0]

\* connectedAppendages(ring)
connectedAppendages ==
    \A i \in 1 .. Len(vnodes) :
        \E j \in SuccIdx :
            /\ successors[vnodes[i]][j] # Nil
            /\ successors[vnodes[i]][j] \in Range(vnodes)

RECURSIVE ringFrom(_, _, _)
\* The loop of atleastOneRing for one firstNode.
ringFrom(firstNode, node, count) ==
    IF node = Nil \/ count >= Len(vnodes) THEN FALSE
    ELSE IF node = firstNode THEN TRUE
    ELSE ringFrom(firstNode, walkNext(node), count + 1)

\* atleastOneRing(ring)
atleastOneRing ==
    \E i \in 1 .. Len(vnodes) : ringFrom(vnodes[i], successors[vnodes[i]][0], 0)

RECURSIVE succListFrom(_, _, _, _)
\* The loop of atmostOneRing and orderedRing that builds succList.
succListFrom(firstNode, node, count, succList) ==
    IF node # Nil /\ node # firstNode /\ count < Len(vnodes)
    THEN succListFrom(firstNode, walkNext(node), count + 1, Append(succList, node))
    ELSE succList

\* succList with the walk cut one step short (count starting at 1).
succListShort == succListFrom(vnodes[1], successors[vnodes[1]][0], 1, <<vnodes[1]>>)

\* succList as both functions build it, from ring.vnodes[0].
succList == succListFrom(vnodes[1], successors[vnodes[1]][0], 0, <<vnodes[1]>>)

\* atmostOneRing(ring)
atmostOneRing == Len(succList) = Len(vnodes)

\* orderedRing(ring)
orderedRing ==
    /\ Len(succList) = Len(vnodes)
    /\ \A i \in 1 .. Len(vnodes) : vnodes[i] = succList[i]

\* CheckCorrectnessInvariants(ring): the first failing predicate returns false.
CheckCorrectnessInvariants ==
    /\ connectedAppendages
    /\ atleastOneRing
    /\ atmostOneRing
    /\ orderedRing

\* I1: ring.vnodes in ascending id order.
SortedVnodes ==
    \A i \in 1 .. (Len(vnodes) - 1) : IdOf(vnodes[i]) < IdOf(vnodes[i + 1])

\* ------------------------------------------------------- scripted scenarios
\* Ring.simulateScenario2 (vers = "old", join) and Ring.simulateScenario3
\* (vers = "new", joinNew): a vnode joins through r.vnodes[0] and the successor it
\* picked leaves before anything else runs on the engine goroutine.
simulateScenario(vers) ==
    /\ ~panicked
    /\ events > 0
    /\ nextNum < NumVnodes + MaxJoins
    /\ version = ""
    /\ version' = vers
    /\ LET vn == nextNum
           r == joinLookup(vers, vnodes[1], vn)
       IN
       IF r.kind = "panic" \/ (r.kind = "ok" /\ vers = "new" /\ r.nodes[1] = Nil)
       THEN /\ panicked' = TRUE
            /\ UNCHANGED <<vnodes, registered, successors, predecessor, Shutdown, pc,
                           failReader>>
       ELSE IF r.kind = "err" \/ r.nodes[1] = Nil
       THEN \* "could not join the ring": return
            /\ registered' = registered \cup {vn}
            /\ panicked' = FALSE
            /\ UNCHANGED <<vnodes, successors, predecessor, Shutdown, pc, failReader>>
       ELSE LET successor == r.nodes[1]
                joined == SortById(Append(vnodes, vn))
                S == [successors EXCEPT ![vn] = joinSuccessors(r.nodes)]
                Reg == registered \cup {vn}
            IN
            IF successor \notin Range(joined)
                \/ leavePanics(successor, S, predecessor, Reg)
            THEN \* r.vnodes[:val] with val = -1, or the nil dereference of SkipSuccessor
                 /\ panicked' = TRUE
                 /\ UNCHANGED <<vnodes, registered, successors, predecessor, Shutdown,
                                pc, failReader>>
            ELSE /\ successors' = leaveSuccessors(successor, S, predecessor, Reg)
                 /\ predecessor' = leavePredecessor(successor, S, predecessor, Reg)
                 /\ Shutdown' = [Shutdown EXCEPT ![successor] = TRUE]
                 /\ registered' = Reg \ {successor}
                 /\ vnodes' = RemoveAt(joined, IndexOf(joined, successor))
                 /\ pc' = [pc EXCEPT ![vn] = "armed"]
                 /\ failReader' = failReader \cup {vn}
                 /\ panicked' = FALSE
    /\ nextNum' = nextNum + 1
    /\ events' = events - 1
    /\ fresh' = FALSE
    /\ UNCHANGED <<dhtVars, delegateVars, raceVars, genVars>>
    /\ UNCHANGED <<NumVnodes, NumSuccessors, finger, last_finger, shutdown, stopped,
                   signals>>

Next ==
    \/ \E v \in Nums : Stabilize(v)
    \/ \E val \in 0 .. (MaxVnodes + MaxJoins) : EvLeave(val)
    \/ \E vers \in {"old", "new"} : EvJoin(vers)

Spec == Init /\ [][Next]_vars

\* Create followed by stabilization only: no membership event is applied.
InitStable == InitWith(1 .. MaxVnodes, 1 .. MaxSuccessors, 0, {""})

NextStable == \E v \in Nums : Stabilize(v)

SpecStable == InitStable /\ [][NextStable]_vars

\* The same, every vnode's timer firing again and again (time.AfterFunc).
SpecStableFair ==
    /\ InitStable
    /\ [][NextStable]_vars
    /\ \A v \in Nums : WF_vars(Stabilize(v))

\* A created ring under an event list of leave and fail events.
InitDepart == InitWith(1 .. MaxVnodes, 1 .. MaxSuccessors, MaxDeparts, {""})

NextDepart ==
    \/ \E v \in Nums : Stabilize(v)
    \/ \E val \in 0 .. (MaxVnodes - 1) : EvLeave(val)
    \/ \E val \in 0 .. (MaxVnodes - 1) : EvFail(val)

SpecDepart == InitDepart /\ [][NextDepart]_vars

\* A created ring under an event list of join, leave and fail events.
NextEngine ==
    \/ \E v \in Nums : Stabilize(v)
    \/ \E val \in 0 .. (MaxVnodes + MaxJoins) : EvLeave(val)
    \/ \E val \in 0 .. (MaxVnodes + MaxJoins) : EvFail(val)
    \/ \E vers \in {"old", "new"} : EvJoin(vers)

SpecEngine == Init /\ [][NextEngine]_vars

\* createRing(nN) of the simulation driver fixes NumSuccessors; here it is the
\* longest list of the model.
InitScenario == InitWith(1 .. MaxVnodes, {MaxSuccessors}, 1, {""})

\* Create, stabilization, and the scripted scenario 2 (old join).
NextScenario2 ==
    \/ \E v \in Nums : Stabilize(v)
    \/ simulateScenario("old")

SpecScenario2 == InitScenario /\ [][NextScenario2]_vars

\* ------------------------------------------------------------ Shutdown
\* stopVnodes waiting for one signal fewer.
stopCountShort == NumVnodes - 1

\* Number of signals Ring.stopVnodes waits for.
stopCount == NumVnodes

\* Ring.Shutdown -> Ring.stopVnodes: r.shutdown = make(chan bool, NumVnodes).
StopVnodes ==
    /\ ~panicked
    /\ shutdown = Nil
    /\ shutdown' = 0
    /\ stopped' = 0
    /\ fresh' = FALSE
    /\ UNCHANGED <<dhtVars, delegateVars, raceVars, genVars>>
    /\ UNCHANGED <<NumVnodes, NumSuccessors, vnodes, registered, successors, finger,
                   last_finger, predecessor, Shutdown, pc, failReader, signals,
                   nextNum, events, version, panicked>>

\* Ring.stopVnodes: one "<-r.shutdown" of its loop.
StopReceive ==
    /\ ~panicked
    /\ shutdown # Nil
    /\ shutdown > 0
    /\ stopped < stopCount
    /\ shutdown' = shutdown - 1
    /\ stopped' = stopped + 1
    /\ fresh' = FALSE
    /\ UNCHANGED <<dhtVars, delegateVars, raceVars, genVars>>
    /\ UNCHANGED <<NumVnodes, NumSuccessors, vnodes, registered, successors, finger,
                   last_finger, predecessor, Shutdown, pc, failReader, signals,
                   nextNum, events, version, panicked>>

\* Ring.Shutdown has returned (no delegate is configured).
ShutdownReturned == stopped # Nil /\ stopped = stopCount

\* A ring of N >= 2 created vnodes on which Shutdown may be called at any moment.
InitShutdown == InitWith(2 .. MaxVnodes, 1 .. MaxSuccessors, 0, {""})

NextShutdown ==
    \/ \E v \in Nums : Stabilize(v)
    \/ StopVnodes
    \/ StopReceive

\* Every armed timer fires and every running round and the stopVnodes loop proceed.
SpecShutdown ==
    /\ InitShutdown
    /\ [][NextShutdown]_vars
    /\ \A v \in Nums : WF_vars(Stabilize(v))
    /\ WF_vars(StopReceive)

\* ------------------------------------------------------------ settling
\* A ring of MaxVnodes created vnodes with successor lists of MaxSuccessors slots
\* to which the engine applies its events with the corrected join, every vnode's
\* timer and round running on for ever.
InitLive == InitWith({MaxVnodes}, {MaxSuccessors}, MaxEvents, {"new"})

NextLive ==
    \/ \E v \in Nums : Stabilize(v)
    \/ \E val \in 0 .. (MaxVnodes + MaxJoins) : EvLeave(val)
    \/ EvJoin("new")

SpecLive ==
    /\ InitLive
    /\ [][NextLive]_vars
    /\ \A v \in Nums : WF_vars(Stabilize(v))

\* ------------------------------------------- goroutines on one vnode
\* notifySuccessor up to the return of trans.Notify: the handler Notify has run on
\* the successor, in the calling goroutine; succ_list is held in a local.
NotifyCall(v) ==
    /\ ~panicked
    /\ pc[v] = "notifySuccessor"
    /\ LET succ == successors[v][0] IN
       IF succ = Nil \/ succ \notin registered
       THEN /\ pc' = [pc EXCEPT ![v] = "fixFingerTable"]
            /\ UNCHANGED <<predecessor, notifying>>
       ELSE /\ predecessor' = [predecessor EXCEPT ![succ] = Notify(succ, v)]
            /\ notifying' = [notifying EXCEPT
                    ![v] = [succ |-> succ, list |-> successors[succ]]]
            /\ pc' = [pc EXCEPT ![v] = "notifyCopy"]
    /\ fresh' = FALSE
    /\ UNCHANGED <<dhtVars, delegateVars, genVars>>
    /\ UNCHANGED <<NumVnodes, NumSuccessors, vnodes, registered, successors, finger,
                   last_finger, Shutdown, failReader, shutdown, stopped, signals, nextNum,
                   events, version, panicked>>

\* The rest of notifySuccessor: the loop that copies succ_list into
\* vn.successors[1:]. Notify returned the slice vn.successors of the successor,
\* which no lock protects: the loop reads the entries as they were at the call or
\* as they are now.
NotifyCopy(v) ==
    /\ ~panicked
    /\ pc[v] = "notifyCopy"
    /\ \E list \in {notifying[v].list, successors[notifying[v].succ]} :
          successors' = [successors EXCEPT ![v] = updateSuccessors(v, @, list, 0)]
    /\ notifying' = [notifying EXCEPT ![v] = NoCall]
    /\ pc' = [pc EXCEPT ![v] = "fixFingerTable"]
    /\ fresh' = FALSE
    /\ UNCHANGED <<dhtVars, delegateVars, genVars>>
    /\ UNCHANGED <<NumVnodes, NumSuccessors, vnodes, registered, finger, last_finger,
                   predecessor, Shutdown, failReader, shutdown, stopped, signals, nextNum,
                   events, version, panicked>>

\* localVnode.stabilize on the timer goroutine of v, notifySuccessor in two steps.
StabilizeRace(v) ==
    \/ TimerFire(v)
    \/ NotifyCall(v)
    \/ NotifyCopy(v)
    \/ FixFingerTableStep(v)
    \/ CheckPredecessorStep(v)

\* A created ring whose vnodes run their rounds on their timer goroutines while
\* the engine goroutine applies a leave event.
InitRace == InitWith({MaxVnodes}, {MaxSuccessors}, MaxEvents, {""})

NextRace ==
    \/ \E v \in Nums : StabilizeRace(v)
    \/ \E val \in 0 .. (MaxVnodes - 1) : EvLeave(val)

SpecRace == InitRace /\ [][NextRace]_vars

\* ------------------------------------------------------ generateEvents
\* The values rand.Intn(10) can return.
Draws == 0 .. 9

\* The branch of generateEvents taken for one draw val.
eventOf(val) ==
    IF val < 7 THEN "join" ELSE IF val < 10 THEN "leave" ELSE "fail"

\* One iteration of the loop of generateEvents: val := rand.Intn(10), append.
GenerateStep(val) ==
    /\ ~panicked
    /\ Len(genEvents) < genNum
    /\ genEvents' = Append(genEvents, [val |-> val, event |-> eventOf(val)])
    /\ fresh' = FALSE
    /\ UNCHANGED <<ringVars, dhtVars, delegateVars, raceVars, genNum>>

\* Ring.checkCorrectness calls r.generateEvents(num) on a created ring.
InitGenerate ==
    /\ InitRing({MaxVnodes}, {MaxSuccessors}, 0, {""})
    /\ DelegateOff
    /\ genNum \in 0 .. MaxGenerated
    /\ genEvents = <<>>

NextGenerate == \E val \in Draws : GenerateStep(val)

SpecGenerate == InitGenerate /\ [][NextGenerate]_vars

\* ------------------------------------------------------------ the dht REPL
\* The hash of a key typed at the REPL (Ring.Lookup hashes it with the ring's hash).
KeyHash(k) == HashTable[Len(HashTable) - k]

\* dataStore.Get: the value, or the error "Key Not Found".
dataGet(d, k) ==
    IF d[k] = Nil THEN [ok |-> FALSE, value |-> Nil] ELSE [ok |-> TRUE, value |-> d[k]]

\* Set that keeps the value a key already has.
dataSetOnce(d, k, v) == IF d[k] = Nil THEN [d EXCEPT ![k] = v] ELSE d

\* dataStore.Set: always nil.
dataSet(d, k, v) == [d EXCEPT ![k] = v]

\* dataStore.Delete: always nil.
dataDelete(d, k) == [d EXCEPT ![k] = Nil]

\* Ring.GetLocalNode: the member of r.vnodes with the id of the handle, or nil.
GetLocalNode(node) ==
    LET same == {i \in 1 .. Len(vnodes) : IdOf(vnodes[i]) = IdOf(node)}
    IN  IF same = {} THEN Nil
        ELSE vnodes[CHOOSE i \in same : \A j \in same : i <= j]

\* The first lines of each REPL case: ring.Lookup(1, key), whose error is printed
\* and ignored, nodes[0], ring.GetLocalNode(nodes[0]), whose error is printed and
\* ignored, and the dereference localNode.DataStore. Nil: the command panics.
ReplNode(k) ==
    LET r == Lookup(1, KeyHash(k)) IN
    IF r.kind # "ok" \/ r.nodes = <<>> THEN Nil
    ELSE IF r.nodes[1] = Nil THEN Nil
    ELSE GetLocalNode(r.nodes[1])

\* case "GET"
DhtGet(k) ==
    /\ ~panicked
    /\ \E n \in {ReplNode(k)} :
          IF n = Nil
          THEN /\ panicked' = TRUE
               /\ UNCHANGED reply
          ELSE /\ reply' = [cmd |-> "GET", key |-> k, arg |-> Nil] @@ dataGet(store[n], k)
               /\ panicked' = FALSE
    /\ fresh' = FALSE
    /\ UNCHANGED <<NumVnodes, NumSuccessors, vnodes, registered, successors, finger,
                   last_finger, predecessor, Shutdown, pc, failReader, shutdown, stopped,
                   signals, nextNum, events, version, store, delegateVars, raceVars, genVars>>

\* case "SET"
DhtSet(k, v) ==
    /\ ~panicked
    /\ \E n \in {ReplNode(k)} :
          IF n = Nil
          THEN /\ panicked' = TRUE
               /\ UNCHANGED <<store, reply>>
          ELSE /\ store' = [store EXCEPT ![n] = dataSet(@, k, v)]
               /\ reply' = [cmd |-> "SET", key |-> k, arg |-> v, ok |-> TRUE, value |-> Nil]
               /\ panicked' = FALSE
    /\ fresh' = FALSE
    /\ UNCHANGED <<NumVnodes, NumSuccessors, vnodes, registered, successors, finger,
                   last_finger, predecessor, Shutdown, pc, failReader, shutdown, stopped,
                   signals, nextNum, events, version, delegateVars, raceVars, genVars>>

\* case "DELETE"
DhtDelete(k) ==
    /\ ~panicked
    /\ \E n \in {ReplNode(k)} :
          IF n = Nil
          THEN /\ panicked' = TRUE
               /\ UNCHANGED <<store, reply>>
          ELSE /\ store' = [store EXCEPT ![n] = dataDelete(@, k)]
               /\ reply' = [cmd |-> "DELETE", key |-> k, arg |-> Nil, ok |-> TRUE,
                         value |-> Nil]
               /\ panicked' = FALSE
    /\ fresh' = FALSE
    /\ UNCHANGED <<NumVnodes, NumSuccessors, vnodes, registered, successors, finger,
                   last_finger, predecessor, Shutdown, pc, failReader, shutdown, stopped,
                   signals, nextNum, events, version, delegateVars, raceVars, genVars>>

\* main, case dht: Create with DefaultConfig (64 vnodes, here 2 .. MaxVnodes), then
\* the REPL loop beside the vnodes' timers.
InitDht == InitWith(2 .. MaxVnodes, 1 .. MaxSuccessors, 0, {""})

NextDht ==
    \/ \E v \in Nums : Stabilize(v)
    \/ \E k \in Keys : DhtGet(k)
    \/ \E k \in Keys, v \in Values : DhtSet(k, v)
    \/ \E k \in Keys : DhtDelete(k)

SpecDht == InitDht /\ [][NextDht]_vars

\* ------------------------------------------------------------ the delegate
\* The callbacks the vnodes hand to invokeDelegate (Notify, leave,
\* ClearPredecessor, SkipSuccessor).
Callbacks == {"NewPredecessor", "Leaving", "PredecessorLeaving", "SuccessorLeaving"}

\* Ring.invokeDelegate(f) called by a vnode: the wrapper of f is sent on
\* r.delegateCh; the send waits while the buffer is full. The wrappers are
\* numbered in the order of their sends.
InvokeDelegate(f) ==
    /\ ~panicked
    /\ handler # "off"
    /\ stopper = "idle"
    /\ nextCb <= MaxCallbacks
    /\ Len(delegateCh) < DelegateCap
    /\ delegateCh' = Append(delegateCh, [n |-> nextCb, f |-> f])
    /\ nextCb' = nextCb + 1
    /\ fresh' = FALSE
    /\ UNCHANGED <<ringVars, dhtVars, raceVars, genVars, chClosed, handler, running, ran, stopper>>

\* A second consumer: a wrapper is received while another is inside safeInvoke.
DelegateReceiveAny ==
    /\ ~panicked
    /\ handler \in {"recv", "invoke"}
    /\ delegateCh # <<>>
    /\ running' = running \cup {Head(delegateCh)}
    /\ delegateCh' = Tail(delegateCh)
    /\ handler' = "invoke"
    /\ fresh' = FALSE
    /\ UNCHANGED <<ringVars, dhtVars, raceVars, genVars, chClosed, ran, stopper, nextCb>>

\* Ring.delegateHandler: f, ok := <-r.delegateCh; break when closed and drained.
DelegateReceive ==
    /\ ~panicked
    /\ handler = "recv"
    /\ IF delegateCh # <<>>
       THEN /\ running' = running \cup {Head(delegateCh)}
            /\ delegateCh' = Tail(delegateCh)
            /\ handler' = "invoke"
       ELSE /\ chClosed
            /\ handler' = "exited"
            /\ UNCHANGED <<running, delegateCh>>
    /\ fresh' = FALSE
    /\ UNCHANGED <<ringVars, dhtVars, raceVars, genVars, chClosed, ran, stopper, nextCb>>

\* Ring.safeInvoke(f) returns: the callback ran to its end or panicked and was
\* recovered; either way the wrapper's deferred send has signalled completion.
SafeInvoke(recovered) ==
    /\ ~panicked
    /\ handler = "invoke"
    /\ \E c \in running :
          /\ ran' = Append(ran, [n |-> c.n, f |-> c.f, recovered |-> recovered])
          /\ running' = running \ {c}
    /\ handler' = "recv"
    /\ fresh' = FALSE
    /\ UNCHANGED <<ringVars, dhtVars, raceVars, genVars, delegateCh, chClosed, stopper, nextCb>>

\* Ring.stopDelegate: r.invokeDelegate(r.config.Delegate.Shutdown).
StopDelegateInvoke ==
    /\ ~panicked
    /\ handler # "off"
    /\ stopper = "idle"
    /\ Len(delegateCh) < DelegateCap
    /\ delegateCh' = Append(delegateCh, [n |-> nextCb, f |-> "Shutdown"])
    /\ nextCb' = nextCb + 1
    /\ stopper' = "wait"
    /\ fresh' = FALSE
    /\ UNCHANGED <<ringVars, dhtVars, raceVars, genVars, chClosed, handler, running, ran>>

\* Ring.stopDelegate: the completion channel is read, close(r.delegateCh), return.
StopDelegateClose ==
    /\ ~panicked
    /\ stopper = "wait"
    /\ \E i \in DOMAIN ran : ran[i].f = "Shutdown"
    /\ chClosed' = TRUE
    /\ stopper' = "returned"
    /\ fresh' = FALSE
    /\ UNCHANGED <<ringVars, dhtVars, raceVars, genVars, delegateCh, handler, running, ran, nextCb>>

\* Ring.init and Ring.schedule with a delegate configured: go r.delegateHandler().
InitDelegate ==
    /\ InitRing(2 .. MaxVnodes, {MaxSuccessors}, 0, {""})
    /\ GenOff
    /\ delegateCh = <<>>
    /\ chClosed = FALSE
    /\ handler = "recv"
    /\ running = {}
    /\ ran = <<>>
    /\ stopper = "idle"
    /\ nextCb = 1

\* The vnodes' callbacks, the handler goroutine and Ring.Shutdown's stopDelegate.
NextDelegate ==
    \/ \E f \in Callbacks : InvokeDelegate(f)
    \/ DelegateReceive
    \/ \E recovered \in BOOLEAN : SafeInvoke(recovered)
    \/ StopDelegateInvoke
    \/ StopDelegateClose

SpecDelegate == InitDelegate /\ [][NextDelegate]_vars

\* ------------------------------------------------------------ properties
\* The vnode after index i (1-based) of ring.vnodes, cyclically.
RingNext(i) == vnodes[(i % Len(vnodes)) + 1]
\* The vnode before index i (1-based) of ring.vnodes, cyclically.
RingPrev(i) == vnodes[((i + Len(vnodes) - 2) % Len(vnodes)) + 1]

\* C7: immediately after Create, ring.vnodes is sorted ascending by id; the vnode at
\* sorted index idx has successors[i] = the vnode at sorted index (idx+i+1) mod N for
\* every i < min(R, N-1), nil in every remaining slot, a nil predecessor and an
\* all-nil finger table.
C7_CreateState ==
    fresh =>
        /\ Len(vnodes) = NumVnodes
        /\ SortedVnodes
        /\ \A idx \in 0 .. (NumVnodes - 1) :
            LET v == vnodes[idx + 1] IN
            /\ \A i \in SuccIdx :
                successors[v][i] =
                    IF i < Min(NumSuccessors, NumVnodes - 1)
                    THEN vnodes[((idx + i + 1) % NumVnodes) + 1]
                    ELSE Nil
            /\ predecessor[v] = Nil
            /\ \A k \in FingerIdx : finger[v][k] = Nil

\* A ring just created whose successor lists hold both filled and nil slots.
C7_Witness ==
    /\ fresh
    /\ NumVnodes = 2
    /\ NumSuccessors = 2
    /\ successors[vnodes[1]][0] = vnodes[2]
    /\ successors[vnodes[1]][1] = Nil

\* The members of the ring snapshot.
LiveSet == Range(vnodes)

RECURSIVE Hop(_, _)
\* The handle reached from v after k successor[0] links, each hop resolved through
\* the live-member map; nil once a hop leaves the live set.
Hop(v, k) ==
    IF k = 0 THEN v
    ELSE LET prev == Hop(v, k - 1) IN
         IF prev = Nil \/ prev \notin LiveSet THEN Nil ELSE successors[prev][0]

\* Number of links of the walk from vnodes[0]: it ends on returning to the start,
\* on a nil link, or after |ring.vnodes| links.
WalkLength ==
    LET ends == {k \in 1 .. Len(vnodes) :
                    Hop(vnodes[1], k) = vnodes[1] \/ Hop(vnodes[1], k) = Nil}
    IN  IF ends = {} THEN Len(vnodes) + 1
        ELSE CHOOSE k \in ends : \A j \in ends : k <= j

\* I2, connected appendages.
I2 == \A v \in LiveSet : \E j \in SuccIdx : successors[v][j] \in LiveSet
\* I3, at least one ring.
I3 == \E v \in LiveSet : \E k \in 1 .. Len(vnodes) : Hop(v, k) = v
\* I4, at most one ring: the walk from vnodes[0] visits exactly the live set.
I4 == vnodes # <<>> /\ {Hop(vnodes[1], k) : k \in 0 .. (WalkLength - 1)} = LiveSet
\* I5, ordered ring: the walk is ring.vnodes in its sorted order.
I5 == /\ vnodes # <<>>
      /\ WalkLength = Len(vnodes)
      /\ \A k \in 0 .. (WalkLength - 1) : Hop(vnodes[1], k) = vnodes[k + 1]

\* C5: for every ring snapshot CheckCorrectnessInvariants is true exactly when
\* I2, I3, I4 and I5 all hold over the live set of ring.vnodes.
C5_InvariantsMeaning ==
    ~panicked => (CheckCorrectnessInvariants <=> (I2 /\ I3 /\ I4 /\ I5))

\* A snapshot after an event in which the evaluator answers true, and one in which
\* the walk from vnodes[0] has the length of the ring but passes a departed vnode.
C5_Witness ==
    /\ ~fresh /\ events = 0 /\ ~panicked
    /\ Len(vnodes) >= 2
    /\ CheckCorrectnessInvariants

C5_WitnessFalse ==
    /\ ~panicked
    /\ Len(vnodes) >= 2
    /\ connectedAppendages /\ atleastOneRing
    /\ ~CheckCorrectnessInvariants

\* Stabilization has settled: every member's successors[0] is the next member in
\* circular id order.
Settled ==
    /\ vnodes # <<>>
    /\ \A i \in 1 .. Len(vnodes) : successors[vnodes[i]][0] = RingNext(i)

\* The members v with key in (predecessor(v).id, v.id], the predecessor being the
\* member before v in circular id order.
Owners(key) ==
    {vnodes[i] : i \in {j \in 1 .. Len(vnodes) :
        BetweenRightIncl(IdOf(RingPrev(j)), IdOf(vnodes[j]), key)}}

\* C3: in a settled ring, for every key, Lookup(1, k) returns exactly one vnode,
\* the unique member v with hash(k) in (predecessor(v).id, v.id].
C3_LookupOwner ==
    (Settled /\ ~panicked) =>
        \A key \in IdSpace :
            /\ Cardinality(Owners(key)) = 1
            /\ Lookup(1, key).kind = "ok"
            /\ Lookup(1, key).nodes = <<CHOOSE v \in Owners(key) : TRUE>>

\* A ring that settled again after a join or a leave, with a key stored on the
\* member whose id equals the key's hash.
C3_Witness ==
    /\ Settled /\ ~panicked /\ ~fresh /\ events = 0
    /\ Len(vnodes) >= 2
    /\ Lookup(1, IdOf(vnodes[1])).nodes = <<vnodes[1]>>

\* C9: in every reachable ring state Lookup(n, key) with 1 <= n <= R returns an
\* error or a non-empty list of at most n vnodes whose last entry is non-nil, and
\* never indexes outside the result while trimming nils.
C9_LookupTrimSafe ==
    (~panicked) =>
        \A n \in 1 .. NumSuccessors : \A key \in IdSpace :
            LET r == Lookup(n, key) IN
            \/ r.kind = "err"
            \/ /\ r.kind = "ok"
               /\ r.nodes # <<>>
               /\ Len(r.nodes) <= n
               /\ r.nodes[Len(r.nodes)] # Nil

\* C6: in a ring made by Create with N >= 2 vnodes and no event applied, every
\* reachable state satisfies CheckCorrectnessInvariants and every vnode's
\* successors[0] is its neighbour in sorted id order.
C6_StableRing ==
    (NumVnodes >= 2) => (CheckCorrectnessInvariants /\ Settled)

\* A 3-vnode ring in which every vnode has been through a round: all predecessors
\* are set and a vnode is inside its next round.
C6_Witness ==
    /\ NumVnodes = 3
    /\ \A v \in LiveSet : predecessor[v] # Nil /\ finger[v][0] # Nil
    /\ \E v \in LiveSet : pc[v] = "fixFingerTable"

\* C8: in a ring created with a single vnode, successors[0] is the vnode itself,
\* Lookup(1, k) returns that vnode for every key, and each stabilization round
\* completes leaving the successor list unchanged.
C8_SingleVnode ==
    (NumVnodes = 1) =>
        /\ successors[vnodes[1]][0] = vnodes[1]
        /\ \A key \in IdSpace :
            Lookup(1, key).kind = "ok" /\ Lookup(1, key).nodes = <<vnodes[1]>>
        /\ pc[vnodes[1]] # "failSend"

\* The vnode the scripted scenario made, once it is a member of the ring.
Joiner == NumVnodes
ScenarioDone == events = 0 /\ ~panicked /\ Joiner \in LiveSet

\* C2: under the old join, after one join followed at once by the leave of the
\* successor the joiner picked, every later state, quiescent ones included, has the
\* at-most-one-ring or the ordered-ring predicate false and
\* CheckCorrectnessInvariants false.
C2_OldJoinBreaksRing ==
    (ScenarioDone /\ version = "old") =>
        /\ ~atmostOneRing \/ ~orderedRing
        /\ ~CheckCorrectnessInvariants

\* After the scenario every member, the joiner included, has been through a round
\* (its first finger is written) and is between two rounds: the walk from vnodes[0]
\* still does not cover the ring.
C2_Witness ==
    /\ ScenarioDone /\ version = "old"
    /\ Len(vnodes) = 3
    /\ \A v \in LiveSet : pc[v] = "armed" /\ finger[v][0] # Nil
    /\ ~atmostOneRing

RingCorrect == SortedVnodes /\ CheckCorrectnessInvariants

\* C1: after any sequence of join, leave and fail events applied with the corrected
\* join, once events stop and every live vnode keeps running rounds, the ring
\* eventually reaches and stays in a state where ring.vnodes is sorted by id and
\* CheckCorrectnessInvariants is true.
C1_EventuallyCorrect == <>[]RingCorrect

\* Every non-nil finger[k] of every member v is the member owning v.id + 2^k.
FingersCorrect ==
    \A v \in LiveSet : \A k \in FingerIdx :
        finger[v][k] # Nil =>
            finger[v][k] \in Owners(PowerOffset(IdOf(v), k, HashBits))

\* C4: after events stop and rounds keep running, every vnode eventually reaches and
\* keeps a finger table in which each non-nil finger[k] is the live successor of
\* (v.id + 2^k) mod 2^M; no finger keeps pointing to a vnode that left or failed.
C4_FingersEventuallyCorrect == <>[]FingersCorrect

\* Every created vnode has written one signal, is in no round and has no timer armed.
AllStopped ==
    \A v \in 0 .. (NumVnodes - 1) : signals[v] = 1 /\ pc[v] = "none"

\* C10: on a ring of the N >= 2 created vnodes, a call to Shutdown eventually
\* returns; when it has returned every vnode has written exactly one signal to
\* ring.shutdown and has no timer armed; and a vnode that has written its signal
\* executes no further sub-step.
C10_ShutdownReturns ==
    /\ (shutdown # Nil) ~> ShutdownReturned
    /\ [](ShutdownReturned => AllStopped)
    /\ [][\A v \in Nums : signals[v] > 0 => pc'[v] = "none" /\ signals'[v] = 1]_vars

\* Shutdown called while vnodes were inside a round: it has returned on a 3-vnode
\* ring some of whose vnodes had already written their finger tables.
C10_Witness ==
    /\ ShutdownReturned
    /\ NumVnodes = 3
    /\ AllStopped
    /\ \E v \in LiveSet : finger[v][0] # Nil
    /\ \E v \in LiveSet : predecessor[v] = Nil

\* The position a vnode's round may move to from each position.
RoundOrder(v) ==
    pc'[v] # pc[v] =>
        \/ pc[v] = "armed" /\ pc'[v] \in {"notifySuccessor", "failSend", "none", "shutdownSend"}
        \/ pc[v] = "notifySuccessor" /\ pc'[v] = "fixFingerTable"
        \/ pc[v] = "fixFingerTable" /\ pc'[v] = "checkPredecessor"
        \/ pc[v] = "checkPredecessor" /\ pc'[v] = "armed"
        \/ pc[v] = "shutdownSend" /\ pc'[v] = "none"
        \/ pc[v] = "none" /\ pc'[v] = "armed" /\ v = nextNum

\* A vnode past sub-step 1 of a round can always run its next sub-step.
RoundProceeds ==
    \A v \in Nums :
        (~panicked /\ pc[v] \in {"notifySuccessor", "fixFingerTable", "checkPredecessor"})
            => ENABLED Stabilize(v)

\* C11: within one round the four sub-steps run in the order checkNewSuccessor,
\* notifySuccessor, fixFingerTable, checkPredecessor, and each later sub-step is
\* executed whether or not an earlier one returned an error.
C11_SubStepOrder ==
    /\ []RoundProceeds
    /\ [][\A v \in Nums : RoundOrder(v)]_vars

\* checkNewSuccessor has just returned an error (the successor is gone and is the
\* only one known) and the round stands before notifySuccessor, which will fail too.
C11_Witness ==
    \E v \in LiveSet :
        /\ ~panicked /\ ~Shutdown[v]
        /\ pc[v] = "notifySuccessor"
        /\ successors[v][0] # Nil
        /\ successors[v][0] \notin registered
        /\ knownSuccessors(successors[v]) = 1

\* A round of v has started with ring.shutdown nil and the latch unset, and has
\* not yet returned.
InRound(v) ==
    pc[v] \in {"failSend", "notifySuccessor", "fixFingerTable", "checkPredecessor"}

\* C12: every stabilization round that starts while ring.shutdown is nil and the
\* vnode's latch is unset eventually finishes and re-arms the vnode's timer,
\* including the round in which checkNewSuccessor finds successors[0] and the
\* predecessor nil and writes to the fail channel.
C12_RoundFinishes ==
    \A v \in Nums : InRound(v) ~> (pc[v] = "armed")

\* A round of v that starts on a set latch: the timer fires and stabilize returns
\* at the latch test.
LatchedRound(v) == Shutdown[v] /\ shutdown = Nil /\ TimerFire(v)

\* C13: a latch set by leave() or fail() is never reset, and a round of that vnode
\* that starts afterwards makes no transport call and changes no successor list,
\* predecessor, finger table or last_finger (its own or, through a call, another's).
C13_LatchNoOp ==
    [][\A v \in Nums :
          /\ Shutdown[v] => Shutdown'[v]
          /\ LatchedRound(v) =>
                /\ UNCHANGED <<successors, predecessor, finger, last_finger>>
                /\ pc'[v] = "none"]_vars

\* Both ways of setting the latch have happened and a round has since been
\* started on a latched vnode, which had a live, registered successor to call.
C13_Witness ==
    \E v, w \in Nums :
        /\ v # w /\ Shutdown[v] /\ Shutdown[w]
        /\ v \notin registered /\ pc[v] = "none"
        /\ successors[v][0] # Nil /\ successors[v][0] \in registered
        /\ predecessor[successors[v][0]] # v

\* C14: leave() returns a non-nil error whenever its SkipSuccessor call or its
\* ClearPredecessor call failed, the first failing and the second succeeding
\* included: stated for every member the engine may apply a leave event to.
C14_LeaveReportsErrors ==
    \A i \in 1 .. Len(vnodes) :
        LET v == vnodes[i] IN
        (~panicked /\ events > 0 /\ ~leavePanics(v, successors, predecessor, registered))
            => ((\/ leaveSkipFailed(v, successors, predecessor, registered)
                 \/ leaveClearFailed(v, successors, predecessor, registered))
                    => leaveError(v, successors, predecessor, registered))

\* The case of C15 for the member L: its predecessor pointer names a live P whose
\* successors[0] is L, and its successors[0] names a live S whose predecessor is L.
LeaveCase(L) ==
    /\ predecessor[L] # Nil /\ predecessor[L] # L
    /\ predecessor[L] \in registered /\ ~Shutdown[predecessor[L]]
    /\ successors[predecessor[L]][0] = L
    /\ successors[L][0] # Nil /\ successors[L][0] # L
    /\ successors[L][0] \in registered /\ ~Shutdown[successors[L][0]]
    /\ predecessor[successors[L][0]] = L

\* A successor list shifted left by one, the last known slot set to nil.
Shifted(succs) ==
    [i \in SuccIdx |->
        IF i = knownSuccessors(succs) - 1 THEN Nil
        ELSE IF i + 1 \in SuccIdx THEN succs[i + 1]
        ELSE succs[i]]

\* C15: when L leaves in the case above, P's successor list becomes its old list
\* shifted left by one with the last known slot nil, S.predecessor becomes nil, and
\* no other field of P or S and no state of any other vnode changes.
C15_LeaveEffect ==
    [][\A val \in 0 .. (MaxVnodes + MaxJoins) :
          (EvLeave(val) /\ ~panicked' /\ LeaveCase(vnodes[val + 1])) =>
              LET L == vnodes[val + 1]
                  P == predecessor[L]
                  S == successors[L][0]
              IN
              /\ \A w \in Nums :
                    /\ successors'[w] = IF w = P THEN Shifted(successors[w])
                                        ELSE successors[w]
                    /\ predecessor'[w] = IF w = S THEN Nil ELSE predecessor[w]
                    /\ w # L => Shutdown'[w] = Shutdown[w]
              /\ UNCHANGED <<finger, last_finger, pc>>]_vars

\* The one event applied was the leave of L between a live P and a live S: P has
\* moved on to its next successor and S has no predecessor.
C15_Witness ==
    /\ events = 0 /\ ~panicked
    /\ \E L \in Nums :
          /\ Shutdown[L] /\ L \notin registered
          /\ predecessor[L] # Nil /\ predecessor[L] \in registered
          /\ successors[L][0] # Nil /\ successors[L][0] \in registered
          /\ predecessor[L] # successors[L][0]
          /\ successors[predecessor[L]][0] = successors[L][0]
          /\ successors[predecessor[L]][MaxSuccessors - 1] = Nil
          /\ NumSuccessors = MaxSuccessors
          /\ predecessor[successors[L][0]] = Nil

\* C16: fail() sets the vnode's latch and deregisters it and sends no notification:
\* at the fail step the successors, predecessor and finger table of every other
\* vnode (and its own) are unchanged.
C16_FailEffect ==
    [][\A val \in 0 .. (MaxVnodes - 1) :
          (EvFail(val) /\ ~panicked') =>
              LET F == vnodes[val + 1] IN
              /\ Shutdown'[F]
              /\ F \notin registered'
              /\ \A w \in Nums \ {F} : Shutdown'[w] = Shutdown[w]
              /\ registered' = registered \ {F}
              /\ UNCHANGED <<successors, predecessor, finger, last_finger, pc>>]_vars

\* The first event was the fail of F, which had been notified of its predecessor P:
\* P still holds F as successors[0] and F's successor still holds F as predecessor.
C16_Witness ==
    /\ events = MaxDeparts - 1 /\ ~panicked
    /\ \E F \in Nums :
          /\ Shutdown[F] /\ F \notin registered
          /\ predecessor[F] # Nil /\ predecessor[F] \in registered
          /\ successors[predecessor[F]][0] = F
          /\ successors[F][0] # Nil /\ successors[F][0] \in registered
          /\ predecessor[successors[F][0]] = F

\* The number of vnodes a join asks its seed for.
JoinCount(vers) == IF vers = "new" THEN NumSuccessors ELSE 1

\* C17: after a successful join through a seed the joiner's successor list holds,
\* in order from slot 0, exactly the first n vnodes the seed's FindSuccessors
\* returned for the joiner's id (n = 1 old join, n = R corrected join), its other
\* slots and its predecessor are nil, and no existing vnode's state was changed.
C17_JoinResult ==
    [][\A vers \in {"old", "new"} :
          (EvJoin(vers) /\ Len(vnodes') = Len(vnodes) + 1) =>
              LET vn == nextNum
                  r == FindSuccessors(vnodes[3], JoinCount(vers), IdOf(vn))
              IN
              /\ r.kind = "ok"
              /\ Len(r.nodes) = JoinCount(vers)
              /\ \A i \in SuccIdx :
                    successors'[vn][i] =
                        IF i < JoinCount(vers) THEN r.nodes[i + 1] ELSE Nil
              /\ predecessor'[vn] = Nil
              /\ \A w \in Nums \ {vn} : successors'[w] = successors[w]
              /\ UNCHANGED <<predecessor, finger, last_finger, Shutdown>>
              /\ \A w \in Nums \ {vn} : pc'[w] = pc[w]]_vars

\* The corrected join has succeeded and filled more than one slot of the joiner,
\* which has not run a round yet.
C17_Witness ==
    /\ ~panicked /\ version = "new" /\ NumSuccessors = MaxSuccessors
    /\ Len(vnodes) = NumVnodes + 1
    /\ \E vn \in Range(vnodes) :
          /\ vn >= NumVnodes
          /\ pc[vn] = "armed" /\ fresh = FALSE
          /\ predecessor[vn] = Nil
          /\ \A i \in SuccIdx : successors[vn][i] # Nil
          /\ successors[vn][0] # successors[vn][1]

\* The vnodes deregistered by leave() or fail().
Departed == {v \in Nums : Shutdown[v] /\ v \notin registered}

\* Calls that target a departed vnode fail: Ping is false, FindSuccessors returns
\* an error, and a caller whose only known successor is departed gets an error
\* from checkNewSuccessor (its GetPredecessor call failed).
DepartedCallsFail ==
    \A v \in Departed :
        /\ ~Ping(v)
        /\ \A n \in 1 .. MaxSuccessors, key \in IdSpace :
              TransFindSuccessors(v, n, key).kind = "err"
        /\ \A w \in Nums \ {v} :
              (successors[w][0] = v /\ knownSuccessors(successors[w]) = 1)
                  => /\ checkNewSuccessor(w, successors[w]).err
                     /\ checkNewSuccessor(w, successors[w]).succs = successors[w]

\* A step that is not a step of v's own round leaves the state of a departed v alone.
DepartedUntouched(v) ==
    (v \in Departed /\ pc'[v] = pc[v]) =>
        /\ successors'[v] = successors[v]
        /\ predecessor'[v] = predecessor[v]
        /\ finger'[v] = finger[v]
        /\ last_finger'[v] = last_finger[v]
        /\ Shutdown'[v] /\ v \notin registered'

ReplOwner(k) == CHOOSE v \in Owners(KeyHash(k)) : TRUE

\* What GET k returns from the store of the owner of k.
StoreGet(k) == dataGet(store[ReplOwner(k)], k)

\* Every command reaches the one owner of its key, and on any store a repeated
\* set or delete leaves the store as after the first.
ReplSound ==
    \A k \in Keys :
        /\ Cardinality(Owners(KeyHash(k))) = 1
        /\ Lookup(1, KeyHash(k)).kind = "ok"
        /\ Lookup(1, KeyHash(k)).nodes = <<ReplOwner(k)>>
        /\ ReplNode(k) = ReplOwner(k)
        /\ \A n \in Range(vnodes) \ {ReplOwner(k)} : store[n][k] = Nil
        /\ \A n \in Range(vnodes), v \in Values :
              /\ dataSet(dataSet(store[n], k, v), k, v) = dataSet(store[n], k, v)
              /\ dataDelete(dataDelete(store[n], k), k) = dataDelete(store[n], k)

\* The effect of one step on the REPL: a command (the step changes reply or a
\* store) or a step of a stabilization round (the step changes pc).
ReplStep ==
    /\ UNCHANGED vnodes
    /\ pc' # pc => UNCHANGED <<store, reply>>
    /\ (reply' # reply \/ store' # store) =>
          /\ reply'.cmd = "SET" =>
                /\ reply'.ok
                /\ dataGet(store'[ReplOwner(reply'.key)], reply'.key)
                      = [ok |-> TRUE, value |-> reply'.arg]
          /\ reply'.cmd = "DELETE" =>
                /\ reply'.ok
                /\ dataGet(store'[ReplOwner(reply'.key)], reply'.key)
                      = [ok |-> FALSE, value |-> Nil]
          /\ reply'.cmd = "GET" =>
                /\ reply'.ok = StoreGet(reply'.key).ok
                /\ reply'.value = StoreGet(reply'.key).value
                /\ UNCHANGED store
          /\ \A k \in Keys \ {reply'.key} : StoreGet(k)' = StoreGet(k)

\* C18: in a ring with no membership events, whatever rounds interleave, SET k v
\* followed by GET k returns v and DELETE k followed by GET k returns key not
\* found: Lookup(1, k) names the same vnode at every call, GET returns the value
\* of the latest SET on that vnode's store, SET and DELETE always succeed, and a
\* repeated SET or DELETE leaves the store as after the first.
C18_DhtRoundTrip ==
    /\ []ReplSound
    /\ [][ReplStep]_vars

\* GET has just printed the value of the latest SET of its key while another key
\* holds another value, with rounds run in between.
C18_Witness ==
    /\ ~panicked
    /\ reply # <<>>
    /\ reply.cmd = "GET" /\ reply.ok /\ reply.value = MaxValues
    /\ \E k \in Keys \ {reply.key} : StoreGet(k).ok /\ StoreGet(k).value # MaxValues
    /\ \E v \in Nums : finger[v][0] # Nil

\* The callbacks run in the order of their sends: the i-th to return is the i-th
\* sent, the one inside safeInvoke is the next, the buffer holds the ones after it.
DelegateFifo ==
    /\ \A i \in DOMAIN ran : ran[i].n = i
    /\ \A c \in running : c.n = Len(ran) + 1
    /\ \A i \in DOMAIN delegateCh :
          delegateCh[i].n = Len(ran) + Cardinality(running) + i

\* When stopDelegate has returned the Shutdown callback has run, after every
\* callback sent before it.
ShutdownRanLast ==
    stopper = "returned" =>
        \E i \in DOMAIN ran :
            /\ ran[i].f = "Shutdown"
            /\ \A n \in 1 .. (ran[i].n - 1) : \E j \in 1 .. (i - 1) : ran[j].n = n

\* C20: with a delegate configured the callbacks passed to invokeDelegate are run
\* by a single consumer one at a time in the order they were enqueued: no two
\* execute concurrently, and when stopDelegate returns the Shutdown callback has
\* run after every callback enqueued before it.
C20_DelegateSerial ==
    /\ Cardinality(running) <= 1
    /\ DelegateFifo
    /\ ShutdownRanLast

\* stopDelegate has returned after the buffer had been full and every vnode
\* callback, one of them panicking, ran before the Shutdown callback.
C20_Witness ==
    /\ stopper = "returned" /\ handler = "exited"
    /\ Len(ran) = MaxCallbacks + 1
    /\ ran[Len(ran)].f = "Shutdown"
    /\ \E i \in DOMAIN ran : ran[i].recovered
    /\ \E i, j \in DOMAIN ran : ran[i].f # ran[j].f /\ ran[j].f # "Shutdown" /\ i < j

\* The vnodes whose handlers SkipSuccessor and ClearPredecessor the leave of L calls.
LeaveTargets(L) ==
    {t \in {predecessor[L], leaveSuccessors(L, successors, predecessor, registered)[L][0]} :
        t # Nil /\ t \in registered}

\* The vnodes whose handlers run in the step: those called by a leave, and the
\* successor on which a notifySuccessor calls Notify.
HandlerRuns(v) ==
    \/ \E val \in 0 .. (Len(vnodes) - 1) :
          /\ EvLeave(val) /\ ~panicked'
          /\ v \in LeaveTargets(vnodes[val + 1])
    \/ \E w \in Nums \ {v} :
          /\ NotifyCall(w)
          /\ successors[w][0] = v /\ v \in registered

\* C21: for every vnode v an RPC handler on v never runs interleaved with a
\* sub-step of v's own stabilization round: no handler runs on v while v's
\* notifySuccessor is between its Notify call and its copy loop.
C21_HandlersExclusive ==
    [][\A v \in Nums : pc[v] = "notifyCopy" => ~HandlerRuns(v)]_vars

\* The draws that give the event kind e.
DrawsOf(e) == {val \in Draws : eventOf(val) = e}

\* C22: generateEvents(num) returns exactly num events, each one of join, leave or
\* fail, from a uniform draw over ten values of which seven give join, two give
\* leave and one gives fail, so that fail can occur in a generated sequence.
C22_GenerateEvents ==
    /\ Len(genEvents) <= genNum
    /\ \A i \in DOMAIN genEvents : genEvents[i].event \in {"join", "leave", "fail"}
    /\ Cardinality(Draws) = 10
    /\ Cardinality(DrawsOf("join")) = 7
    /\ Cardinality(DrawsOf("leave")) = 2
    /\ Cardinality(DrawsOf("fail")) = 1
    /\ \A i \in DOMAIN genEvents :
          genEvents[i].val = 9 => genEvents[i].event = "fail"

\* The vnodes that were created or have joined, and have not left or failed.
Members ==
    {v \in Nums : ~Shutdown[v] /\ (v < NumVnodes \/ pc[v] # "none")}

\* C23: after every event the engine applies (join, leave or fail) ring.vnodes is
\* sorted strictly ascending by id, contains each joined vnode exactly once and
\* contains no vnode that has left or failed.
C23_VnodesSorted ==
    /\ SortedVnodes
    /\ \A i \in 1 .. Len(vnodes) : ~Shutdown[vnodes[i]]
    /\ \A v \in Members : Cardinality({i \in 1 .. Len(vnodes) : vnodes[i] = v}) = 1
    /\ Range(vnodes) \subseteq Members

\* A join has put the new vnode, whose id is the smallest, in front of the created
\* ones.
C23_Witness ==
    /\ ~panicked /\ events = 0
    /\ Len(vnodes) = NumVnodes + 1
    /\ vnodes[1] >= NumVnodes
    /\ pc[vnodes[1]] # "none"

\* Scenario 3 on a ring of MaxVnodes vnodes with MaxSuccessors successors each: Create,
\* the scripted joinNew followed at once by the leave of the joiner's successor, and
\* stabilization rounds that every scheduled vnode keeps running.
InitScenario3 == InitWith({MaxVnodes}, {MaxSuccessors}, 1, {""})

NextScenario3 ==
    \/ \E v \in Nums : Stabilize(v)
    \/ simulateScenario("new")

SpecScenario3 ==
    /\ InitScenario3
    /\ [][NextScenario3]_vars
    /\ \A v \in Nums : WF_vars(Stabilize(v))

Scenario3Done == ScenarioDone /\ version = "new"
JoinerSuccessorLive == successors[Joiner][0] \in LiveSet
JoinerInRing == CheckCorrectnessInvariants /\ Joiner \in Range(vnodes)

\* C24: with the corrected join, after the joiner's immediate successor left before
\* the joiner ran any round, the joiner eventually has a live vnode in successors[0]
\* and the ring eventually satisfies CheckCorrectnessInvariants with the joiner as a
\* member.
C24_Scenario3Recovers ==
    [](Scenario3Done => (<>JoinerSuccessorLive /\ <>JoinerInRing))

\* The ring is stable: every member's successor list names the members that follow it
\* in circular id order, its predecessor is the member before it, every finger is
\* filled and names the owner of its offset, and the evaluator answers true.
StableRing ==
    /\ ~panicked
    /\ Len(vnodes) = NumVnodes
    /\ CheckCorrectnessInvariants
    /\ FingersCorrect
    /\ \A i \in 1 .. Len(vnodes) :
        /\ \A j \in SuccIdx :
            j < Len(vnodes) - 1 => successors[vnodes[i]][j] = RingNext(i + j)
        /\ predecessor[vnodes[i]] = RingPrev(i)
        /\ \A k \in FingerIdx : finger[vnodes[i]][k] # Nil

\* Stabilization rounds, and Ring.checkCorrectness applying its one event, of any
\* kind, once the ring is stable.
NextSingle ==
    \/ \E v \in Nums : Stabilize(v)
    \/ \E val \in 0 .. (MaxVnodes - 1) : StableRing /\ EvLeave(val)
    \/ \E val \in 0 .. (MaxVnodes - 1) : StableRing /\ EvFail(val)
    \/ \E vers \in {"old", "new"} : StableRing /\ EvJoin(vers)

\* A ring of MaxVnodes vnodes with MaxSuccessors successors that stabilizes, takes one
\* event once stable, and is left to rounds that every vnode keeps running.
SpecSingle ==
    /\ InitWith({MaxVnodes}, {MaxSuccessors}, 1, {""})
    /\ [][NextSingle]_vars
    /\ \A v \in Nums : WF_vars(Stabilize(v))

\* C25: from a stable ring of at least 3 vnodes with at least 2 successors, after a
\* single event of any kind followed by quiescence, under every fair interleaving of
\* rounds the ring eventually satisfies CheckCorrectnessInvariants again.
C25_SingleEventRecovers ==
    (events = 0 /\ ~panicked) ~> CheckCorrectnessInvariants

\* A round of v that enters checkNewSuccessor with successors[0] nil.
NilSuccessorRound(v) ==
    /\ successors[v][0] = Nil
    /\ ~Shutdown[v]
    /\ shutdown = Nil
    /\ TimerFire(v)

\* C26: checkNewSuccessor with successors[0] nil returns an error (the round goes on
\* to notifySuccessor) without changing the vnode's state, and writes to the fail
\* channel exactly when the predecessor is also nil; with a non-nil predecessor it
\* writes nothing.
C26_NilSuccessor ==
    [][\A v \in Nums :
        NilSuccessorRound(v) =>
            /\ pc'[v] = "notifySuccessor"
            /\ successors' = successors
            /\ predecessor' = predecessor
            /\ finger' = finger
            /\ (failReader' # failReader) <=> (predecessor[v] = Nil)]_vars

\* A round of v whose GetPredecessor call on successors[0] succeeds.
GetPredecessorRound(v) ==
    /\ ~Shutdown[v]
    /\ shutdown = Nil
    /\ successors[v][0] # Nil
    /\ successors[v][0] \in registered
    /\ TimerFire(v)

\* C27: when GetPredecessor on successors[0] succeeds with result p,
\* checkNewSuccessor replaces successors[0] exactly when p is non-nil and p.id lies
\* strictly between the vnode's id and successors[0].id; after a replacement
\* successors[0] = p and successors[1..R-1] are the first R-1 successors reported by
\* p; with no replacement the successor list is unchanged.
C27_AdoptPredecessor ==
    [][\A v \in Nums :
        GetPredecessorRound(v) =>
            LET succ == successors[v][0]
                p == predecessor[succ]
            IN  IF p # Nil /\ Between(IdOf(v), IdOf(succ), IdOf(p))
                THEN /\ successors'[v][0] = p
                     /\ \A j \in 1 .. (NumSuccessors - 1) :
                            successors'[v][j] = successors[p][j - 1]
                ELSE successors'[v] = successors[v]]_vars

\* A round of v whose GetPredecessor call on successors[0] fails.
DeadSuccessorRound(v) ==
    /\ ~Shutdown[v]
    /\ shutdown = Nil
    /\ successors[v][0] # Nil
    /\ successors[v][0] \notin registered
    /\ TimerFire(v)

\* The slots of a successor list that name a live vnode.
LiveSlots(succs) == {i \in DOMAIN succs : succs[i] # Nil /\ succs[i] \in registered}

\* The list with its first live entry in slot 0, the entries after it in their
\* order, and the vacated slots nil.
WalkedList(succs) ==
    LET k == CHOOSE i \in LiveSlots(succs) : \A j \in LiveSlots(succs) : i <= j
    IN  [i \in DOMAIN succs |->
            IF k + i < knownSuccessors(succs) THEN succs[k + i] ELSE Nil]

\* C28: when GetPredecessor on successors[0] fails and every known successor is
\* dead, checkNewSuccessor returns an error and successors[0] is still non-nil and
\* names the last entry of the list as it was; when some known successor is alive,
\* the walk ends with the first live entry in slot 0, the entries after it in
\* their previous order and the vacated slots nil (and the check is retried from
\* that list).
C28_SuccessorWalk ==
    [][\A v \in Nums :
        DeadSuccessorRound(v) =>
            LET succs == successors[v] IN
            IF LiveSlots(succs) = {}
            THEN /\ checkNewSuccessor(v, succs).err
                 /\ pc'[v] = "notifySuccessor"
                 /\ successors'[v][0] # Nil
                 /\ successors'[v][0] = succs[knownSuccessors(succs) - 1]
            ELSE /\ ~panicked'
                 /\ successors'[v] = checkNewSuccessor(v, WalkedList(succs)).succs]_vars

\* A vnode in its first round (no finger written yet) whose two successors both
\* departed: the walk found every entry dead and left the last one in slot 0.
C28_Witness ==
    \E v \in Nums :
        /\ ~panicked /\ ~Shutdown[v]
        /\ NumVnodes = 3 /\ NumSuccessors = 2
        /\ vnodes = <<v>>
        /\ pc[v] = "notifySuccessor"
        /\ \A k \in FingerIdx : finger[v][k] = Nil
        /\ successors[v][0] # Nil
        /\ successors[v][0] \notin registered
        /\ successors[v][1] = Nil

\* The number of entries of the returned list L that notifySuccessor copies: those
\* below NumSuccessors - 1 that come before the first nil entry and the first entry
\* naming v itself.
CopyCount(v, L) ==
    LET stops == {j \in 0 .. (NumSuccessors - 2) : L[j] = Nil \/ L[j] = v}
    IN  IF stops = {} THEN NumSuccessors - 1
        ELSE CHOOSE j \in stops : \A k \in stops : j <= k

\* The notify call of v's round succeeds: the successor is there to answer.
NotifySucceeds(v) == successors[v][0] # Nil /\ successors[v][0] \in registered

\* C29: after notifySuccessor succeeds with returned list L, successors[0] is
\* unchanged and, for every j < R-1 before the first nil entry and the first entry
\* equal to the vnode itself in L, successors[j+1] = L[j]; all later slots keep
\* their value. When the notify call fails the whole successor list is unchanged.
C29_NotifyCopy ==
    [][\A v \in Nums :
        NotifySuccessorStep(v) =>
            IF NotifySucceeds(v)
            THEN LET L == successors[successors[v][0]] IN
                 \A i \in SuccIdx :
                    successors'[v][i] =
                        IF i >= 1 /\ i - 1 < CopyCount(v, L)
                        THEN L[i - 1]
                        ELSE successors[v][i]
            ELSE successors'[v] = successors[v]]_vars

\* After a join, a vnode other than the joiner has just copied the joiner, which its
\* successor reported, into slot 1.
C29_Witness ==
    \E v \in LiveSet :
        /\ ~panicked
        /\ NumSuccessors = 2
        /\ nextNum > NumVnodes
        /\ v # NumVnodes
        /\ pc[v] = "fixFingerTable"
        /\ successors[v][0] \in LiveSet
        /\ successors[v][0] # NumVnodes
        /\ successors[v][1] = NumVnodes
        /\ successors[successors[v][0]][0] = NumVnodes

\* The ids strictly inside the clockwise arc from a to b; from a all the way round to
\* a when b = a.
StrictArc(a, b) ==
    LET span == IF a = b THEN 2^HashBits ELSE (b - a + 2^HashBits) % (2^HashBits)
    IN  {(a + d) % (2^HashBits) : d \in 1 .. (span - 1)}

\* The round of v delivers Notify to its successor.
NotifyDelivered(v) == NotifySucceeds(v) /\ NotifySuccessorStep(v)

\* C30: the Notify handler of a vnode sets its predecessor to the caller exactly when
\* the predecessor is nil or the caller's id lies strictly between the predecessor's
\* id and its own, and leaves it unchanged otherwise; in both cases it returns its
\* current successor list (the caller copies from that list) and does not change its
\* own successors or finger table.
C30_NotifyHandler ==
    [][\A v \in Nums :
        NotifyDelivered(v) =>
            LET s == successors[v][0]
                old == predecessor[s]
            IN  /\ predecessor'[s] =
                    IF old = Nil \/ IdOf(v) \in StrictArc(IdOf(old), IdOf(s))
                    THEN v ELSE old
                /\ \A w \in Nums \ {s} : predecessor'[w] = predecessor[w]
                /\ finger' = finger
                /\ s # v => successors'[s] = successors[s]
                /\ \A i \in 1 .. CopyCount(v, successors[s]) :
                        successors'[v][i] = successors[s][i - 1]]_vars

\* The joiner has just notified its successor, which took it as predecessor in place
\* of another member.
C30_Witness ==
    \E s \in LiveSet :
        /\ ~panicked
        /\ nextNum > NumVnodes
        /\ NumVnodes \in LiveSet
        /\ s # NumVnodes
        /\ pc[NumVnodes] = "fixFingerTable"
        /\ successors[NumVnodes][0] = s
        /\ predecessor[s] = NumVnodes
        /\ \E w \in LiveSet \ {s, NumVnodes} :
                successors[w][0] = s /\ finger[w][0] # Nil

ArcRightIncl(a, b) == StrictArc(a, b) \cup {b}

\* The last finger index that fixFingerTable fills with node n when it starts at k:
\* the largest k2 such that every offset of index k+1..k2 lies in (v.id, n.id].
LastFilled(v, n, k) ==
    LET ok == {k2 \in k .. (HashBits - 1) :
                \A j \in (k + 1) .. k2 :
                    PowerOffset(IdOf(v), j, HashBits) \in ArcRightIncl(IdOf(v), IdOf(n))}
    IN  CHOOSE k2 \in ok : \A j \in ok : j <= k2

LastFingerInRange == \A v \in Nums : last_finger[v] \in 0 .. (HashBits - 1)

\* What fixFingerTable of v must leave when its lookup gave r.
FingerFixed(v, r) ==
    LET k == last_finger[v] IN
    IF r.kind = "err" \/ r.nodes = <<>> \/ r.nodes[1] = Nil
    THEN finger'[v] = finger[v] /\ last_finger'[v] = last_finger[v]
    ELSE LET n == r.nodes[1]
             k2 == LastFilled(v, n, k)
         IN  /\ \A i \in FingerIdx :
                    finger'[v][i] = IF k <= i /\ i <= k2 THEN n ELSE finger[v][i]
             /\ last_finger'[v] = (k2 + 1) % HashBits

\* C32: in every reachable state 0 <= last_finger < M. When fixFingerTable starts
\* with last_finger = k and its lookup returns vnode n, afterwards finger[k..k'] all
\* equal n, k' being the largest index whose offsets from k+1 on all lie in
\* (self.id, n.id], last_finger = (k'+1) mod M and every other slot is unchanged;
\* when the lookup fails or returns nil, finger and last_finger are unchanged.
C32_FixFingerTable ==
    /\ []LastFingerInRange
    /\ [][\A v \in Nums :
            (FixFingerTableStep(v) /\ ~panicked') =>
                /\ \E r \in {FindSuccessors(v, 1,
                                PowerOffset(IdOf(v), last_finger[v], HashBits))} :
                        FingerFixed(v, r)
                /\ \A w \in Nums \ {v} :
                        finger'[w] = finger[w] /\ last_finger'[w] = last_finger[w]]_vars

\* A vnode has filled fingers 0 and 1 with the same vnode and stands at index 2,
\* whose slot was never written.
C32_Witness ==
    \E v \in LiveSet :
        /\ ~panicked
        /\ pc[v] = "checkPredecessor"
        /\ finger[v][0] # Nil
        /\ finger[v][1] = finger[v][0]
        /\ finger[v][2] = Nil
        /\ last_finger[v] = 2

\* Every member's successor list and predecessor name its neighbours in circular id
\* order and every finger has been filled.
StableLists ==
    /\ ~panicked
    /\ Len(vnodes) = NumVnodes
    /\ \A i \in 1 .. Len(vnodes) :
        /\ \A j \in SuccIdx :
            j < Len(vnodes) - 1 => successors[vnodes[i]][j] = RingNext(i + j)
        /\ predecessor[vnodes[i]] = RingPrev(i)
        /\ \A k \in FingerIdx : finger[vnodes[i]][k] # Nil

\* A ring created with as many vnodes as the model has handles,
\* stabilization rounds, and one fail event applied once the lists are stable.
InitLookup == InitWith({MaxVnodes + MaxJoins}, {MaxSuccessors}, 1, {""})

NextLookup ==
    \/ \E v \in Nums : Stabilize(v)
    \/ StableLists /\ \E val \in 0 .. (MaxVnodes + MaxJoins - 1) : EvFail(val)

SpecLookup == InitLookup /\ [][NextLookup]_vars

\* ------------------------------------------------ the vnodes a lookup visits
RECURSIVE FindSuccessorsRun(_, _, _)
RECURSIVE TryPrecedingRun(_, _, _, _)
\* One FindSuccessors call on v, with what it visits: kind is how the call ends,
\* visits the handles whose handler ran, in call order, and chains the call stacks
\* that occurred (each from v down through nested calls).
FindSuccessorsRun(v, n, key) ==
    IF key = IdOf(v) \/ successors[v][0] = Nil
    THEN [kind |-> "ok", visits |-> <<v>>, chains |-> {<<v>>}]
    ELSE IF BetweenRightIncl(IdOf(v), IdOf(successors[v][0]), key)
    THEN [kind |-> "ok", visits |-> <<v>>, chains |-> {<<v>>}]
    ELSE LET t == TryPrecedingRun(v, Candidates(v, key), n, key)
         IN  [kind |-> t.kind,
              visits |-> <<v>> \o t.visits,
              chains |-> {<<v>>} \cup {<<v>> \o p : p \in t.chains}]

\* The loop over cp.Next(): a deregistered candidate answers with an error and is
\* not visited; after an error the next candidate is tried, after the last one the
\* later successors.
TryPrecedingRun(v, cs, n, key) ==
    IF cs = {}
    THEN [kind |-> FallbackSuccessors(v, n, key).kind, visits |-> <<>>, chains |-> {}]
    ELSE LET c == Closest(v, cs) IN
         IF c \notin registered THEN TryPrecedingRun(v, cs \ {c}, n, key)
         ELSE LET r == FindSuccessorsRun(c, n, key) IN
              IF r.kind = "err"
              THEN LET t == TryPrecedingRun(v, cs \ {c}, n, key)
                   IN  [kind |-> t.kind,
                        visits |-> r.visits \o t.visits,
                        chains |-> r.chains \cup t.chains]
              ELSE r

NoRepeat(s) == \A i, j \in 1 .. Len(s) : i # j => s[i] # s[j]

\* Every hop of the call stack p goes to a vnode strictly between the caller and the
\* key.
HopsCloser(p, key) ==
    \A i \in 1 .. (Len(p) - 1) : IdOf(p[i + 1]) \in StrictArc(IdOf(p[i]), key)

\* C33: in every ring state, stale pointers included, a FindSuccessors call ends with
\* a result or an error, every hop goes to a vnode whose id lies strictly between
\* the current vnode's id and the key, and one lookup never visits the same vnode
\* twice. (The call is an operator over the state: it writes nothing.)
C33_LookupTerminates ==
    ~panicked =>
        \A v \in registered : \A key \in IdSpace :
            LET run == FindSuccessorsRun(v, 1, key) IN
            /\ run.kind \in {"ok", "err"}
            /\ \A p \in run.chains : HopsCloser(p, key)
            /\ NoRepeat(run.visits)

\* C33, amended: the call ends with a result or an error, every hop goes to a vnode
\* strictly between the current vnode and the key, and no call stack holds the same
\* vnode twice; a vnode can be visited again only from another candidate, after the
\* call on an earlier candidate returned an error.
C33_LookupChains ==
    ~panicked =>
        \A v \in registered : \A key \in IdSpace :
            LET run == FindSuccessorsRun(v, 1, key) IN
            /\ run.kind \in {"ok", "err"}
            /\ \A p \in run.chains : HopsCloser(p, key) /\ NoRepeat(p)

\* After a fail, a lookup runs on one vnode twice: the call on the first candidate
\* returned an error and the next candidate hopped to it again.
C33_Witness ==
    /\ ~panicked
    /\ events = 0
    /\ \E v \in registered : \E key \in IdSpace :
            ~NoRepeat(FindSuccessorsRun(v, 1, key).visits)

\* A round of v that runs checkNewSuccessor.
CheckNewSuccessorRound(v) == ~Shutdown[v] /\ shutdown = Nil /\ TimerFire(v)

\* C34: checkNewSuccessor never makes a vnode lose its live successors: a list that
\* holds a live vnode before the step holds one after it, error or not, and a live
\* successors[0] is never replaced by a vnode that has departed.
C34_KeepsLiveSuccessor ==
    [][\A v \in Nums :
        CheckNewSuccessorRound(v) =>
            /\ LiveSlots(successors[v]) # {} => LiveSlots(successors'[v]) # {}
            /\ successors[v][0] \in registered => successors'[v][0] \in registered]_vars

\* ------------------------------------------------ Shutdown after events
\* A ring of MaxVnodes created vnodes to which the engine applies its events, and on
\* which Shutdown is called once the events have been applied.
InitShutdownEvents == InitWith({MaxVnodes}, {MaxSuccessors}, MaxEvents, {""})

NextShutdownEvents ==
    \/ \E v \in Nums : Stabilize(v)
    \/ \E v \in Nums : SendShutdown(v)
    \/ \E val \in 0 .. (MaxVnodes - 1) : EvLeave(val)
    \/ \E val \in 0 .. (MaxVnodes - 1) : EvFail(val)
    \/ \E vers \in {"old", "new"} : EvJoin(vers)
    \/ events = 0 /\ StopVnodes
    \/ StopReceive

\* Every armed timer fires, every running round, every blocked writer and the
\* stopVnodes loop proceed.
SpecShutdownEvents ==
    /\ InitShutdownEvents
    /\ [][NextShutdownEvents]_vars
    /\ \A v \in Nums : WF_vars(Stabilize(v))
    /\ \A v \in Nums : WF_vars(SendShutdown(v))
    /\ WF_vars(StopReceive)

\* C35: after any events of the engine a call to Shutdown eventually returns, and a
\* vnode blocked writing to ring.shutdown eventually gets its write through.
C35_ShutdownAfterEvents ==
    /\ (shutdown # Nil) ~> ShutdownReturned
    /\ \A v \in Nums : (pc[v] = "shutdownSend") ~> (pc[v] # "shutdownSend")

\* ------------------------------------------------ generated event lists
\* Number of events of the list the engine applies in SpecEvents.
EventsLen == 2

\* A ring of MaxVnodes created vnodes to which the engine applies a generated list
\* of EventsLen events, with successor lists of one slot; generateEvents draws join
\* and leave only.
InitEvents == InitWith({MaxVnodes}, {1}, EventsLen, {""})

NextEvents ==
    \/ \E v \in Nums : Stabilize(v)
    \/ \E val \in 0 .. (MaxVnodes + MaxJoins - 1) : EvLeave(val)
    \/ \E vers \in {"old", "new"} : EvJoin(vers)

SpecEvents == InitEvents /\ [][NextEvents]_vars

\* C36: on a ring created with N >= 3 vnodes every event of the engine finds its
\* index inside ring.vnodes: a join finds the seed at index 2, a leave finds a victim.
C36_IndexInRange ==
    [][/\ (\E vers \in {"old", "new"} : EvJoin(vers)) => Len(vnodes) >= 3
       /\ (\E val \in 0 .. (MaxVnodes + MaxJoins - 1) : EvLeave(val)) => vnodes # <<>>]_vars

\* C37: in a ring of at least 2 vnodes no vnode's successor list holds the vnode's
\* own handle, whichever operation wrote the list last.
C37_NoSelfSuccessor ==
    (NumVnodes >= 2 /\ ~panicked) =>
        \A v \in Nums : \A i \in SuccIdx : successors[v][i] # v

\* C38: every vnode's successor list is a run of non-nil entries followed only by
\* nil entries, so knownSuccessors is the number of its non-nil entries.
C38_NoHoles ==
    ~panicked =>
        \A v \in Nums :
            /\ \A i, j \in SuccIdx :
                  (i < j /\ successors[v][i] = Nil) => successors[v][j] = Nil
            /\ knownSuccessors(successors[v])
                  = Cardinality({i \in SuccIdx : successors[v][i] # Nil})

\* A leaving vnode has made its predecessor skip it: the predecessor's list of a
\* 3-vnode ring has moved one slot left and ends in nil.
C38_Witness ==
    /\ ~panicked
    /\ NumVnodes = 3
    /\ NumSuccessors = 2
    /\ \E v \in registered : \E d \in Nums \ registered :
          /\ Shutdown[d]
          /\ predecessor[d] = v
          /\ successors[v][0] \in registered
          /\ successors[v][1] = Nil

\* Every live vnode's predecessor is the live vnode just before it in id order.
PredecessorsCorrect ==
    \A i \in 1 .. Len(vnodes) : predecessor[vnodes[i]] = RingPrev(i)

\* C39: after the events have stopped every live vnode's predecessor eventually
\* equals, and from then on stays, the live vnode immediately preceding it; a
\* predecessor naming a vnode that left or failed is cleared and replaced.
C39_PredecessorsSettle ==
    (events = 0 /\ ~panicked) ~> [](~panicked => PredecessorsCorrect)

\* The vnode's timer is armed by this step: a call of vn.schedule.
Arms(v) == pc'[v] = "armed" /\ pc[v] # "armed"

\* C40: a vnode has at most one stabilization activity outstanding. Its timer is
\* armed for the first time when it is created or joins, and afterwards only by the
\* last sub-step of its own round, which ends the round; a firing consumes the timer;
\* and a vnode whose activity has ended is never armed again.
C40_OneActivity ==
    /\ [](\A v \in Nums : v >= nextNum => pc[v] = "none")
    /\ [][\A v \in Nums :
            /\ Arms(v) =>
                  \/ pc[v] = "checkPredecessor" /\ CheckPredecessorStep(v)
                  \/ pc[v] = "none" /\ v = nextNum /\ nextNum' = nextNum + 1
            /\ TimerFire(v) => (panicked' \/ pc'[v] # "armed")
            /\ (pc[v] = "none" /\ v < nextNum) => pc'[v] = "none"]_vars

\* A vnode that joined through the engine has run a whole round and has been
\* re-armed by it, as has a vnode made by Create.
C40_Witness ==
    /\ ~panicked
    /\ \E v \in Nums : v >= NumVnodes /\ pc[v] = "armed" /\ finger[v][0] # Nil
    /\ \E v \in Nums : v < NumVnodes /\ pc[v] = "armed" /\ finger[v][0] # Nil

\* ------------------------------------------------ longer successor lists
\* Slots of the successor lists in SpecWide.
WideSuccessors == 3

\* No vnode is inside a round: the engine sleeps between two events
\* (time.Sleep(sleep)), and here an event is applied only between rounds.
Quiet == \A v \in Nums : pc[v] \in {"armed", "none"}

\* A ring of MaxVnodes created vnodes with successor lists of WideSuccessors slots to
\* which the engine applies EventsLen generated events with the corrected join.
InitWide == InitWith({MaxVnodes}, {WideSuccessors}, EventsLen, {"new"})

NextWide ==
    \/ \E v \in Nums : Stabilize(v)
    \/ \E val \in 0 .. (MaxVnodes + MaxJoins - 1) : Quiet /\ EvLeave(val)
    \/ Quiet /\ EvJoin("new")

SpecWide == InitWide /\ [][NextWide]_vars

====
